---- MODULE Spec2Model ----
(***************************************************************************)
(* A model of virtualbricks' brick lifecycle (bricks.py: poweron /         *)
(* poweroff) and of the project file engine (configfile.py: save /         *)
(* restore).                                                               *)
(***************************************************************************)
EXTENDS Integers, Sequences, FiniteSets, TLC

VARIABLES
    \* ---- Brick lifecycle (bricks.py) ----
    tcp,            \* factory.TCP is not None
    cfgd,           \* what self.configured() answers (overridden per brick type)
    plugs,          \* self.plugs: what each plug answers to configured() / connected()
    btype,          \* self.get_type()
    sudo,           \* self._needsudo
    homehost,       \* self.homehost: "none" or the host's address
    proc,           \* self.proc: None or the Popen object
    pid,            \* self.pid (0 while never set)
    alive,          \* the OS process behind proc is running (proc.poll() is None)
    run_condition,  \* self.run_condition
    active,         \* self.active
    internal_console, \* self.internal_console: "none" or "sock"
    sockopen,       \* the console socket object has not been closed
    mgmt,           \* the management socket file self.console() exists
    need_restart,   \* self.need_restart_to_apply_changes
    pc,             \* "idle", or "polling" while poweroff sits in its poll loop
    polled,         \* the poll loop has seen the process still running
    last            \* what the last call did (see Call)

VARIABLES
    \* ---- The project file and its siblings (configfile.py: save / restore) ----
    dest,           \* the project file: Absent, or its content
    bak,            \* filename + "~"
    tmp,            \* "." + tail + ".sav" beside the project file
    back,           \* filename + ".back"
    spc,            \* where save / restore stands
    job             \* what the running (or last) save / restore has seen and done

VARIABLES
    \* ---- The project text (configfile.py: save_to / restore_from) ----
    factory,        \* the factory: bricks, socks, events, disk_images, remote_hosts
    orig,           \* the factory as it stood when the session began
    fileobj,        \* the lines of the project file
    rpos,           \* the line `l` of restore_from's loop (1-based)
    fpc,            \* "built", "saved", "reading", "done" or "raised"
    flast           \* what the last save_to / loop iteration did

savevars == <<dest, bak, tmp, back, spc, job>>

filevars == <<factory, orig, fileobj, rpos, fpc, flast>>

cfgvars == <<tcp, cfgd, plugs, btype, sudo, homehost>>

brickvars == <<proc, pid, run_condition, active, internal_console, need_restart>>

lifevars == <<cfgvars, brickvars, alive, sockopen, mgmt, pc, polled, last>>

vars == <<lifevars, savevars, filevars>>

\* ---- bounds ----
MaxPlugs == 1

\* ---- values ----
None == 0
Popen == 1
Events == {"ev1"}
EventNames == {"", "ev1", "ghost"}
Plug == [configured : BOOLEAN, connected : BOOLEAN]
\* A plug is configured when it has a sock; it can only be connected through one.
Plugs == {p \in Plug : p.connected => p.configured}
PlugLists == UNION {[1..n -> Plugs] : n \in 0..MaxPlugs}
\* The pids a process handle can carry: one that fails poweroff's
\* "pid <= 1" test and one that passes it.
Pids == {1, 2}
\* Vectors self.args() can return: the program path, then switches and values.
ArgVectors == {<< <<"p">> >>, << <<"p">>, <<"-", "s">>, <<"a", "\"", "b">> >>}

\* ---- files ----
Absent == [exists |-> FALSE, doc |-> "", whole |-> FALSE]
Docs == {"A", "B"}
\* A file holds a document, whole or cut short (possibly empty).
File(d, w) == [exists |-> TRUE, doc |-> d, whole |-> w]
Files == {Absent} \cup {File(d, w) : d \in Docs, w \in BOOLEAN}
Cut(f) == File(f.doc, FALSE)
\* What one save / restore call has seen and done:
\*   op      "save" or "restore"
\*   new     the document save is writing
\*   old     the project file when save was called
\*   bak0    filename~ when save was called
\*   ops     the file steps save has completed, in order
\*   crashed the process died during the save
\*   raised  the exception that left the call
\*   had     filename~ when restore was called
\*   first   how restore_backup's os.rename(filename, filename.back) went
\*   path    how restore_backup's os.rename(fbackup, filename) went
\*   parsed  the content restore read
\*   errno   the errno of the IOError open(filename) or the parse raised
\*   escaped the exception restore_last_project lets through to its caller
\*   logged  restore_last_project logged "Cannot find last project"
NoJob == [op |-> "none", new |-> "A", old |-> Absent, bak0 |-> Absent, ops |-> <<>>,
          crashed |-> FALSE, raised |-> "none", had |-> Absent,
          first |-> "none", path |-> "none", parsed |-> Absent,
          errno |-> "none", escaped |-> "none", logged |-> FALSE]

\* ---- the project text ----
\* A string is a sequence of tokens; a text file is a sequence of lines.
EmptyFactory == [bricks |-> <<>>, socks |-> <<>>, events |-> <<>>,
                 disk_images |-> <<>>, remote_hosts |-> <<>>]
NoStep == [op |-> "none", line |-> <<>>, raised |-> "none", logs |-> <<>>]
\* No project is open.
NoProject ==
    /\ factory = EmptyFactory /\ orig = EmptyFactory
    /\ fileobj = <<>> /\ rpos = 0 /\ fpc = "none" /\ flast = NoStep

\* ---- Brick.properly_connected, Brick.check_links ----
properly_connected == \A i \in DOMAIN plugs : plugs[i].configured

check_links == \A i \in DOMAIN plugs : plugs[i].connected

\* ---- Base.needsudo ----
needsudo == (~tcp) /\ sudo

\* Guards that test the links before the plugs.
guard_error_links_first ==
    IF tcp THEN "none"
    ELSE IF ~cfgd THEN "BadConfigError"
    ELSE IF ~check_links THEN "LinkLoopError"
    ELSE IF ~properly_connected THEN "NotConnectedError"
    ELSE "none"

\* Guards that are tested under the TCP-control mode too.
guard_error_under_tcp ==
    IF ~cfgd THEN "BadConfigError"
    ELSE IF ~properly_connected THEN "NotConnectedError"
    ELSE IF ~check_links THEN "LinkLoopError"
    ELSE "none"

\* ---- Brick.poweron's guards, in the order the code tests them ----
guard_error ==
    IF tcp THEN "none"
    ELSE IF ~cfgd THEN "BadConfigError"
    ELSE IF ~properly_connected THEN "NotConnectedError"
    ELSE IF ~check_links THEN "LinkLoopError"
    ELSE "none"

\* ---- Brick.start_related_events ----
\* The slot's event is started when it exists; a missing one is a warning.
\* NoSlot stands for a call that never reads the slot.
NoSlot == "n/a"

\* A trigger that starts whatever the slot names.
event_starts_unresolved(slot) == IF slot \notin {NoSlot, ""} THEN 1 ELSE 0

event_starts(slot) == IF slot \in Events THEN 1 ELSE 0

event_logs(slot) ==
    IF slot \notin {NoSlot, ""} /\ slot \notin Events THEN {"warning"} ELSE {}

\* ---- Brick.has_console(closing=True), read with self.proc = p ----
has_console(p) == p # None /\ mgmt

\* What one call of poweron / poweroff did:
\*   op       the method called
\*   raised   the exception that left it, "none" when it returned, "running"
\*            while poweroff is in its poll loop
\*   ret      the return statement reached
\*   logs     the levels it logged at
\*   emitted  the notifications it emitted, in order
\*   sent     the command lines it forwarded to the home host
\*   spawned  the processes it created
\*   signals  the termination signals and kill commands it issued
\*   evstarts the poweron calls it made on events
\*   slot     the event name it read from cfg.pon_vbevent / cfg.poff_vbevent
\*   conn     the home host's connected flag when the call was made
\*   after    "spawn" when the call before it was a poweron that created a process
\*   host     self.homehost when it was called
\*   started  a brick-started was emitted for the brick (by this call or an
\*            earlier one) and no brick-stopped since
\*   nested   what a poweroff called while this call sat in its poll loop did:
\*            "none" (no such call), "noop" (returned at once) or "stop"
\*            (went on to signal the process itself)
Call(op, raised, ret, logs, emitted, snt, spawned, sigs, slot, conn) ==
    [op |-> op, raised |-> raised, ret |-> ret, logs |-> logs,
     emitted |-> emitted, sent |-> snt, spawned |-> spawned, signals |-> sigs,
     evstarts |-> event_starts(slot), slot |-> slot, conn |-> conn,
     after |-> IF last.op = "poweron" /\ last.spawned = 1 THEN "spawn" ELSE "other",
     host |-> homehost, nested |-> "none",
     started |-> IF \E k \in DOMAIN emitted : emitted[k] = "brick-started"
                 THEN TRUE ELSE last.started]

Quiet(op, raised, ret, logs) ==
    Call(op, raised, ret, logs, <<>>, <<>>, 0, 0, NoSlot, "n/a")

\* self.homehost.connected, for a brick that has a home host.
HostFlags == IF homehost = "none" THEN {"n/a"} ELSE {"down", "up"}

\* The vectors args() can return for which the command line can be built:
\* command_line[1] = ... needs a second element.
Buildable(argv) == ~(needsudo /\ btype # "Qemu" /\ Len(argv) < 2)

\* ======================= Brick.poweron =======================

\* A poweron that emits "changed" on its way out, raising or not.
poweron_guard_emits ==
    /\ pc = "idle"
    /\ guard_error # "none"
    /\ \E conn \in HostFlags :
          last' = Call("poweron", guard_error, "raise", {}, <<"changed">>, <<>>, 0, 0,
                       NoSlot, conn)
    /\ UNCHANGED <<cfgvars, brickvars, alive, sockopen, mgmt, pc, polled,
                   savevars, filevars>>

\* poweron raises the first failing guard; nothing else happens.
poweron_guard ==
    /\ pc = "idle"
    /\ guard_error # "none"
    /\ \E conn \in HostFlags :
          last' = Call("poweron", guard_error, "raise", {}, <<>>, <<>>, 0, 0,
                       NoSlot, conn)
    /\ UNCHANGED <<cfgvars, brickvars, alive, sockopen, mgmt, pc, polled,
                   savevars, filevars>>

\* A _poweron without its first test: a running brick is spawned again.
poweron_running_respawns ==
    /\ pc = "idle"
    /\ guard_error = "none"
    /\ proc # None
    /\ \E newpid \in Pids : pid' = newpid
    /\ alive' = TRUE
    /\ \E conn \in HostFlags :
          last' = Call("poweron", "none", "296", {}, <<"brick-started", "changed">>,
                       <<>>, 1, 0, "", conn)
    /\ UNCHANGED <<cfgvars, proc, run_condition, active, internal_console,
                   need_restart, sockopen, mgmt, pc, polled,
                   savevars, filevars>>

\* _poweron returns at once when a process handle exists; poweron emits "changed".
poweron_running ==
    /\ pc = "idle"
    /\ guard_error = "none"
    /\ proc # None
    /\ \E conn \in HostFlags :
          last' = Call("poweron", "none", "229", {}, <<"changed">>, <<>>, 0, 0,
                       NoSlot, conn)
    /\ UNCHANGED <<cfgvars, brickvars, alive, sockopen, mgmt, pc, polled,
                   savevars, filevars>>

\* self.args() raises: logged, _poweron returns.
poweron_args_fail ==
    /\ pc = "idle"
    /\ guard_error = "none"
    /\ proc = None
    /\ \E conn \in HostFlags :
          last' = Call("poweron", "none", "234", {"exception"}, <<"changed">>, <<>>, 0, 0,
                       NoSlot, conn)
    /\ UNCHANGED <<cfgvars, brickvars, alive, sockopen, mgmt, pc, polled,
                   savevars, filevars>>

\* needsudo, not Qemu, and args() is the program path alone:
\* command_line[1] = ... raises IndexError, which nothing catches.
poweron_sudo_index ==
    /\ pc = "idle"
    /\ guard_error = "none"
    /\ proc = None
    /\ \E argv \in ArgVectors : ~Buildable(argv)
    /\ \E conn \in HostFlags :
          last' = Call("poweron", "IndexError", "raise", {}, <<>>, <<>>, 0, 0,
                       NoSlot, conn)
    /\ UNCHANGED <<cfgvars, brickvars, alive, sockopen, mgmt, pc, polled,
                   savevars, filevars>>

\* Home host set but not connected: error logged, nothing sent.
poweron_remote_down ==
    /\ pc = "idle"
    /\ guard_error = "none"
    /\ proc = None
    /\ \E argv \in ArgVectors : Buildable(argv)
    /\ homehost # "none"
    /\ last' = Call("poweron", "none", "257", {"error"}, <<"changed">>, <<>>, 0, 0,
                    NoSlot, "down")
    /\ UNCHANGED <<cfgvars, brickvars, alive, sockopen, mgmt, pc, polled,
                   savevars, filevars>>

\* Home host connected: "<name> on" is forwarded, no local process.
poweron_remote ==
    /\ pc = "idle"
    /\ guard_error = "none"
    /\ proc = None
    /\ \E argv \in ArgVectors : Buildable(argv)
    /\ homehost # "none"
    /\ last' = Call("poweron", "none", "261", {}, <<"changed">>, <<"name on">>, 0, 0,
                    NoSlot, "up")
    /\ UNCHANGED <<cfgvars, brickvars, alive, sockopen, mgmt, pc, polled,
                   savevars, filevars>>

\* Local Qemu brick with a log file that cannot be opened: open() raises
\* IOError, which the except OSError clause does not catch.
poweron_open_fail ==
    /\ pc = "idle"
    /\ guard_error = "none"
    /\ proc = None
    /\ \E argv \in ArgVectors : Buildable(argv)
    /\ homehost = "none"
    /\ btype = "Qemu"
    /\ \E stdout \in {"", "log"} : stdout # ""
    /\ last' = Quiet("poweron", "IOError", "raise", {})
    /\ UNCHANGED <<cfgvars, brickvars, alive, sockopen, mgmt, pc, polled,
                   savevars, filevars>>

\* subprocess.Popen raises OSError: logged, _poweron returns.
\* A failing spawn that had already marked the brick as started.
poweron_spawn_fail_partial ==
    /\ pc = "idle"
    /\ guard_error = "none"
    /\ proc = None
    /\ \E argv \in ArgVectors : Buildable(argv)
    /\ homehost = "none"
    /\ run_condition' = TRUE /\ active' = TRUE
    /\ last' = Call("poweron", "none", "276", {"error"}, <<"changed">>, <<>>, 0, 0,
                    NoSlot, "n/a")
    /\ UNCHANGED <<cfgvars, proc, pid, internal_console, need_restart, alive,
                   sockopen, mgmt, pc, polled, savevars, filevars>>

poweron_spawn_fail ==
    /\ pc = "idle"
    /\ guard_error = "none"
    /\ proc = None
    /\ \E argv \in ArgVectors : Buildable(argv)
    /\ homehost = "none"
    /\ last' = Call("poweron", "none", "276", {"error"}, <<"changed">>, <<>>, 0, 0,
                    NoSlot, "n/a")
    /\ UNCHANGED <<cfgvars, brickvars, alive, sockopen, mgmt, pc, polled,
                   savevars, filevars>>

\* Successful local spawn.
poweron_spawn ==
    /\ pc = "idle"
    /\ guard_error = "none"
    /\ proc = None
    /\ \E argv \in ArgVectors : Buildable(argv)
    /\ homehost = "none"
    /\ proc' = Popen
    /\ \E newpid \in Pids : pid' = newpid
    /\ alive' = TRUE
    \* open_internal_console: a socket only when the management socket showed up
    /\ \E m \in BOOLEAN, con \in {"none", "sock"} :
          /\ (con = "sock") => m
          /\ mgmt' = m
          /\ internal_console' = con
          /\ sockopen' = (con = "sock")
    /\ run_condition' = TRUE
    /\ active' = TRUE
    /\ \E pon_vbevent \in EventNames :
          last' = Call("poweron", "none", "296", event_logs(pon_vbevent),
                       <<"brick-started", "changed">>, <<>>, 1, 0,
                       pon_vbevent, "n/a")
    /\ UNCHANGED <<cfgvars, need_restart, pc, polled,
                   savevars, filevars>>

poweron ==
    \/ poweron_guard
    \/ poweron_running
    \/ poweron_args_fail
    \/ poweron_sudo_index
    \/ poweron_remote_down
    \/ poweron_remote
    \/ poweron_open_fail
    \/ poweron_spawn_fail
    \/ poweron_spawn

\* ======================= Brick.poweroff =======================

\* No process handle, or the run flag already false: nothing happens.
poweroff_noop ==
    /\ pc = "idle"
    /\ proc = None \/ ~run_condition
    /\ last' = Quiet("poweroff", "none", "noop", {})
    /\ UNCHANGED <<cfgvars, brickvars, alive, sockopen, mgmt, pc, polled,
                   savevars, filevars>>

\* A remote stop that keeps the handle until the host confirms.
poweroff_remote_waits ==
    /\ pc = "idle"
    /\ proc # None /\ run_condition
    /\ homehost # "none"
    /\ run_condition' = FALSE
    /\ last' = Call("poweroff", "none", "remote", {}, <<>>, <<"name off\n">>, 0, 0,
                    NoSlot, "n/a")
    /\ UNCHANGED <<cfgvars, proc, pid, active, internal_console, need_restart,
                   alive, sockopen, mgmt, pc, polled,
                   savevars, filevars>>

\* Home host set: the handle is dropped and "<name> off" forwarded.
poweroff_remote ==
    /\ pc = "idle"
    /\ proc # None /\ run_condition
    /\ homehost # "none"
    /\ run_condition' = FALSE
    /\ proc' = None
    /\ last' = Call("poweroff", "none", "remote", {}, <<>>, <<"name off\n">>, 0, 0,
                    NoSlot, "n/a")
    /\ UNCHANGED <<cfgvars, pid, active, internal_console, need_restart,
                   alive, sockopen, mgmt, pc, polled,
                   savevars, filevars>>

\* Privileged stop of a live process whose pidfile cannot be opened:
\* open() raises IOError out of poweroff, after the run flag was cleared.
poweroff_pidfile_missing ==
    /\ pc = "idle"
    /\ proc # None /\ run_condition
    /\ homehost = "none"
    /\ alive /\ needsudo
    /\ run_condition' = FALSE
    /\ last' = Quiet("poweroff", "IOError", "raise", {})
    /\ UNCHANGED <<cfgvars, proc, pid, active, internal_console, need_restart,
                   alive, sockopen, mgmt, pc, polled,
                   savevars, filevars>>

\* Unprivileged stop of a live process whose tracked pid is <= 1: return.
poweroff_pid_le_1 ==
    /\ pc = "idle"
    /\ proc # None /\ run_condition
    /\ homehost = "none"
    /\ alive /\ ~needsudo
    /\ pid <= 1
    /\ run_condition' = FALSE
    /\ last' = Quiet("poweroff", "none", "pid", {})
    /\ UNCHANGED <<cfgvars, proc, pid, active, internal_console, need_restart,
                   alive, sockopen, mgmt, pc, polled,
                   savevars, filevars>>

\* The signals a stop issues: sudo "kill <pid>", or terminate() and kill <pid>.
stop_signals == IF needsudo THEN 1 ELSE 2

\* What self.proc.terminate() can leave in the log: nothing, or "can not
\* send SIGTERM" when it raised. Only the unprivileged stop of a live
\* process calls it.
terminate_logs == IF alive /\ ~needsudo THEN {{}, {"sigterm"}} ELSE {{}}

\* A failing kill command after which poweroff polls all the same.
poweroff_kill_fail_polls ==
    /\ pc = "idle"
    /\ proc # None /\ run_condition
    /\ homehost = "none"
    /\ alive
    /\ needsudo \/ pid > 1
    /\ run_condition' = FALSE
    /\ pc' = "polling"
    /\ polled' = FALSE
    /\ \E t \in terminate_logs :
          last' = Call("poweroff", "none", "kill", {"error"} \cup t, <<>>, <<>>, 0,
                       stop_signals, NoSlot, "n/a")
    /\ UNCHANGED <<cfgvars, proc, pid, active, internal_console, need_restart,
                   alive, sockopen, mgmt,
                   savevars, filevars>>

\* The kill command exits non-zero: logged, poweroff returns, handle kept.
poweroff_kill_fail ==
    /\ pc = "idle"
    /\ proc # None /\ run_condition
    /\ homehost = "none"
    /\ alive
    /\ needsudo \/ pid > 1
    /\ run_condition' = FALSE
    /\ \E t \in terminate_logs :
          last' = Call("poweroff", "none", "kill", {"error"} \cup t, <<>>, <<>>, 0,
                       stop_signals, NoSlot, "n/a")
    /\ UNCHANGED <<cfgvars, proc, pid, active, internal_console, need_restart,
                   alive, sockopen, mgmt, pc, polled,
                   savevars, filevars>>

\* A stop that enters the poll loop with the run flag still set.
poweroff_begin_keeps_flag ==
    /\ pc = "idle"
    /\ proc # None /\ run_condition
    /\ homehost = "none"
    /\ alive => (needsudo \/ pid > 1)
    /\ pc' = "polling"
    /\ polled' = FALSE
    /\ \E t \in terminate_logs :
          last' = Call("poweroff", "running", "loop", t, <<>>, <<>>, 0,
                       IF alive THEN stop_signals ELSE 0, NoSlot, "n/a")
    /\ UNCHANGED <<cfgvars, proc, pid, run_condition, active, internal_console,
                   need_restart, alive, sockopen, mgmt,
                   savevars, filevars>>

\* The process already exited, or the kill command exited 0: enter the poll loop.
poweroff_begin ==
    /\ pc = "idle"
    /\ proc # None /\ run_condition
    /\ homehost = "none"
    /\ alive => (needsudo \/ pid > 1)
    /\ run_condition' = FALSE
    /\ pc' = "polling"
    /\ polled' = FALSE
    /\ \E t \in terminate_logs :
          last' = Call("poweroff", "running", "loop", t, <<>>, <<>>, 0,
                       IF alive THEN stop_signals ELSE 0, NoSlot, "n/a")
    /\ UNCHANGED <<cfgvars, proc, pid, active, internal_console, need_restart,
                   alive, sockopen, mgmt,
                   savevars, filevars>>

\* One turn of the loop with the process still running: sleep and poll again.
poweroff_poll ==
    /\ pc = "polling"
    /\ alive
    /\ polled' = TRUE
    /\ UNCHANGED <<cfgvars, brickvars, alive, sockopen, mgmt, pc, last,
                   savevars, filevars>>

\* poweroff called again (from another thread) while an earlier call sits in
\* its poll loop: the two tests at the top return, or else the call clears
\* the run flag and goes on to stop the process itself.
poweroff_reentrant ==
    /\ pc = "polling"
    /\ IF proc = None \/ ~run_condition
         THEN /\ last' = [last EXCEPT !.nested = "noop"]
              /\ UNCHANGED run_condition
         ELSE /\ run_condition' = FALSE
              /\ last' = [last EXCEPT !.nested = "stop",
                                      !.signals = @ + IF alive THEN stop_signals ELSE 0]
    /\ UNCHANGED <<cfgvars, proc, pid, active, internal_console, need_restart,
                   alive, sockopen, mgmt, pc, polled,
                   savevars, filevars>>

\* A teardown whose post_poweroff forgets to mark the brick inactive.
teardown_keeps_active(poff_vbevent) ==
    /\ proc' = None
    /\ need_restart' = FALSE
    /\ sockopen' = IF has_console(None) THEN FALSE ELSE sockopen
    /\ internal_console' = "none"
    /\ active' = active
    /\ last' = [last EXCEPT !.raised = "none", !.ret = "done",
                            !.emitted = <<"brick-stopped">>,
                            !.started = FALSE,
                            !.slot = poff_vbevent,
                            !.evstarts = event_starts(poff_vbevent),
                            !.logs = last.logs \cup event_logs(poff_vbevent)]

\* The teardown after the loop, with post_poweroff.
teardown(poff_vbevent) ==
    /\ proc' = None
    /\ need_restart' = FALSE
    \* close_internal_console reads has_console after self.proc was cleared
    /\ sockopen' = IF has_console(None) THEN FALSE ELSE sockopen
    /\ internal_console' = "none"
    /\ active' = FALSE
    /\ last' = [last EXCEPT !.raised = "none", !.ret = "done",
                            !.emitted = <<"brick-stopped">>,
                            !.started = FALSE,
                            !.slot = poff_vbevent,
                            !.evstarts = event_starts(poff_vbevent),
                            !.logs = last.logs \cup event_logs(poff_vbevent)]

\* poll() reports an exit status: the loop ends and the teardown runs.
poweroff_finish ==
    /\ pc = "polling"
    /\ ~alive
    /\ \E poff_vbevent \in EventNames : teardown(poff_vbevent)
    /\ pc' = "idle"
    /\ polled' = FALSE
    /\ UNCHANGED <<cfgvars, pid, run_condition, alive, mgmt,
                   savevars, filevars>>

poweroff ==
    \/ poweroff_noop
    \/ poweroff_remote
    \/ poweroff_pidfile_missing
    \/ poweroff_pid_le_1
    \/ poweroff_kill_fail
    \/ poweroff_begin
    \/ poweroff_poll
    \/ poweroff_reentrant
    \/ poweroff_finish

\* ======================= Brick.set_host =======================
set_host ==
    /\ pc = "idle"
    /\ \E host \in {"", "h1"} :
          homehost' = IF host = "" THEN "none" ELSE host
    /\ UNCHANGED <<tcp, cfgd, plugs, btype, sudo, brickvars, alive, sockopen,
                   mgmt, pc, polled, last,
                   savevars, filevars>>

\* ======================= Brick.connect, Brick.disconnect =======================
\* The first unconfigured plug is offered the endpoint; p.connect may refuse.
FirstFree == IF \E i \in DOMAIN plugs : ~plugs[i].configured
             THEN CHOOSE i \in DOMAIN plugs :
                      /\ ~plugs[i].configured
                      /\ \A j \in 1..(i - 1) : plugs[j].configured
             ELSE 0

connect ==
    /\ pc = "idle"
    /\ FirstFree # 0
    /\ \E linked \in BOOLEAN :
          plugs' = [plugs EXCEPT ![FirstFree] =
                        [configured |-> TRUE, connected |-> linked]]
    /\ UNCHANGED <<tcp, cfgd, btype, sudo, homehost, brickvars, alive, sockopen,
                   mgmt, pc, polled, last,
                   savevars, filevars>>

disconnect ==
    /\ pc = "idle"
    /\ plugs' = [i \in DOMAIN plugs |->
                    IF plugs[i].configured
                    THEN [configured |-> FALSE, connected |-> FALSE]
                    ELSE plugs[i]]
    /\ UNCHANGED <<tcp, cfgd, btype, sudo, homehost, brickvars, alive, sockopen,
                   mgmt, pc, polled, last,
                   savevars, filevars>>

\* ======================= Brick.configure =======================
\* New attributes may change what configured() answers.
configure ==
    /\ pc = "idle"
    /\ \E c \in BOOLEAN : cfgd' = c
    /\ UNCHANGED <<tcp, plugs, btype, sudo, homehost, brickvars, alive, sockopen,
                   mgmt, pc, polled, last,
                   savevars, filevars>>

\* ======================= the environment =======================
\* A caller marks the running brick as needing a restart.
NeedRestart ==
    /\ pc = "idle"
    /\ proc # None
    /\ need_restart' = TRUE
    /\ UNCHANGED <<cfgvars, proc, pid, run_condition, active, internal_console,
                   alive, sockopen, mgmt, pc, polled, last,
                   savevars, filevars>>

\* The external process exits (on a signal or by itself).
ProcExit ==
    /\ proc # None /\ alive
    /\ alive' = FALSE
    /\ UNCHANGED <<cfgvars, brickvars, sockopen, mgmt, pc, polled, last,
                   savevars, filevars>>

\* ======================= the lifecycle specification =======================
Init ==
    /\ tcp \in BOOLEAN
    /\ cfgd \in BOOLEAN
    /\ plugs \in PlugLists
    /\ btype \in {"Qemu", "Switch"}
    /\ sudo \in BOOLEAN
    /\ homehost = "none"
    /\ proc = None
    /\ pid = 0
    /\ alive = FALSE
    /\ run_condition = FALSE
    /\ active = FALSE
    /\ internal_console = "none"
    /\ sockopen = FALSE
    /\ mgmt = FALSE
    /\ need_restart = FALSE
    /\ pc = "idle"
    /\ polled = FALSE
    /\ dest = Absent /\ bak = Absent /\ tmp = Absent /\ back = Absent
    /\ spc = "idle"
    /\ job = NoJob
    /\ NoProject
    /\ last = [op |-> "none", raised |-> "none", ret |-> "none", logs |-> {},
               emitted |-> <<>>, sent |-> <<>>, spawned |-> 0, signals |-> 0,
               evstarts |-> 0, slot |-> NoSlot, conn |-> "n/a",
               after |-> "other", host |-> "none", nested |-> "none",
               started |-> FALSE]

Next ==
    \/ poweron
    \/ poweroff
    \/ set_host
    \/ connect
    \/ disconnect
    \/ configure
    \/ NeedRestart
    \/ ProcExit

Spec == Init /\ [][Next]_vars

\* ======================= ConfigFile.save, backup =======================
Saving == {"copying", "copied", "writing", "written", "renamed"}

Raise(exc) ==
    /\ spc' = "idle"
    /\ job' = [job EXCEPT !.raised = exc]

\* save is called: backup() tests isfile(original) and copyfile opens filename~.
save_begin ==
    /\ spc = "idle"
    /\ \E new \in Docs :
          job' = [NoJob EXCEPT !.op = "save", !.new = new, !.old = dest,
                               !.bak0 = bak]
    /\ IF dest # Absent
       THEN bak' = Cut(dest) /\ spc' = "copying"
       ELSE bak' = bak /\ spc' = "copied"
    /\ UNCHANGED <<dest, tmp, back, lifevars, filevars>>

\* shutil.copyfile(original, filename~) completes.
save_copy ==
    /\ spc = "copying"
    /\ bak' = dest
    /\ job' = [job EXCEPT !.ops = Append(@, "copy")]
    /\ spc' = "copied"
    /\ UNCHANGED <<dest, tmp, back, lifevars, filevars>>

\* shutil.copyfile fails part-way: IOError leaves save before the yield.
save_copy_fail ==
    /\ spc = "copying"
    /\ Raise("IOError")
    /\ UNCHANGED <<dest, bak, tmp, back, lifevars, filevars>>

\* open(tmpfile, "w").
save_open ==
    /\ spc = "copied"
    /\ tmp' = File(job.new, FALSE)
    /\ spc' = "writing"
    /\ UNCHANGED <<dest, bak, back, job, lifevars, filevars>>

save_open_fail ==
    /\ spc = "copied"
    /\ Raise("IOError")
    /\ UNCHANGED <<dest, bak, tmp, back, lifevars, filevars>>

\* A save_write that leaves the with backup block's exit to a finally:
\* the backup goes as soon as the temp file is written.
save_write_removes_backup ==
    /\ spc = "writing"
    /\ tmp' = File(job.new, TRUE)
    /\ bak' = IF job.old # Absent THEN Absent ELSE bak
    /\ job' = [job EXCEPT !.ops = IF job.old # Absent
                                  THEN @ \o <<"write", "remove">>
                                  ELSE Append(@, "write")]
    /\ spc' = "written"
    /\ UNCHANGED <<dest, back, lifevars, filevars>>

\* save_to writes the whole model and the file is closed.
save_write ==
    /\ spc = "writing"
    /\ tmp' = File(job.new, TRUE)
    /\ job' = [job EXCEPT !.ops = Append(@, "write")]
    /\ spc' = "written"
    /\ UNCHANGED <<dest, bak, back, lifevars, filevars>>

\* save_to raises part-way (serialization or I/O): the temp file stays cut short.
save_write_fail ==
    /\ spc = "writing"
    /\ \E exc \in {"IOError", "KeyError"} : Raise(exc)
    /\ UNCHANGED <<dest, bak, tmp, back, lifevars, filevars>>

\* os.rename(tmpfile, filename).
save_rename ==
    /\ spc = "written"
    /\ dest' = tmp
    /\ tmp' = Absent
    /\ job' = [job EXCEPT !.ops = Append(@, "rename")]
    /\ spc' = "renamed"
    /\ UNCHANGED <<bak, back, lifevars, filevars>>

\* A failing rename after which the backup block still removes filename~.
save_rename_fail_cleans ==
    /\ spc = "written"
    /\ Raise("OSError")
    /\ bak' = Absent
    /\ UNCHANGED <<dest, tmp, back, lifevars, filevars>>

save_rename_fail ==
    /\ spc = "written"
    /\ Raise("OSError")
    /\ UNCHANGED <<dest, bak, tmp, back, lifevars, filevars>>

\* backup() after its yield: os.remove(filename~) if it created one.
save_end ==
    /\ spc = "renamed"
    /\ IF job.old # Absent
       THEN /\ bak' = Absent
            /\ job' = [job EXCEPT !.ops = Append(@, "remove")]
       ELSE UNCHANGED <<bak, job>>
    /\ spc' = "idle"
    /\ UNCHANGED <<dest, tmp, back, lifevars, filevars>>

\* The process dies while save is running.
Crash ==
    /\ spc \in Saving
    /\ spc' = "crashed"
    /\ job' = [job EXCEPT !.crashed = TRUE]
    /\ UNCHANGED <<dest, bak, tmp, back, lifevars, filevars>>

\* ======================= ConfigFile.restore, restore_backup =======================
\* How an os.rename can go: done, refused across devices (the copy then
\* succeeding or failing), or refused for another reason.
Renames == {"rename", "copy", "copy_fail", "error"}

\* os.rename(filename, filename.back) and its handlers: <<dest, back>> after it.
keep_current(e1) ==
    IF dest = Absent THEN <<dest, back>>
    ELSE CASE e1 = "rename" -> <<Absent, dest>>
           [] e1 = "copy" -> <<dest, dest>>
           [] e1 = "copy_fail" -> <<dest, Cut(dest)>>
           [] OTHER -> <<dest, back>>

\* A move that forgets to delete the backup after copying it.
move_backup_keeps(d, e2) ==
    CASE e2 = "rename" -> <<bak, Absent>>
      [] e2 = "copy" -> <<bak, bak>>
      [] e2 = "copy_fail" -> <<Cut(bak), Absent>>
      [] OTHER -> <<d, bak>>

\* os.rename(fbackup, filename) and its handlers, with the project file now d:
\* <<dest, bak>> after it.
move_backup(d, e2) ==
    CASE e2 = "rename" -> <<bak, Absent>>
      [] e2 = "copy" -> <<bak, Absent>>
      [] e2 = "copy_fail" -> <<Cut(bak), Absent>>
      [] OTHER -> <<d, bak>>

\* restore is called (at start-up, or later): restore_backup runs.
restore_backup ==
    /\ spc \in {"idle", "crashed"}
    /\ spc' = "restoring"
    /\ IF bak = Absent
       THEN /\ job' = [job EXCEPT !.op = "restore", !.raised = "none",
                                  !.had = Absent, !.first = "none",
                                  !.path = "none", !.parsed = Absent,
                                  !.errno = "none", !.escaped = "none",
                                  !.logged = FALSE]
            /\ UNCHANGED <<dest, bak, back>>
       ELSE \E e1 \in Renames, e2 \in Renames :
              LET kept == keep_current(e1)
                  moved == move_backup(kept[1], e2)
              IN /\ back' = kept[2]
                 /\ dest' = moved[1]
                 /\ bak' = moved[2]
                 /\ job' = [job EXCEPT !.op = "restore", !.raised = "none",
                                       !.had = bak,
                                       !.first = IF dest = Absent THEN "ENOENT" ELSE e1,
                                       !.path = e2, !.parsed = Absent,
                                       !.errno = "none", !.escaped = "none",
                                       !.logged = FALSE]
    /\ UNCHANGED <<tmp, lifevars, filevars>>

\* What open(filename) and the reads of restore_from can answer: a missing
\* file is ENOENT; a file that is there opens, is refused (EACCES), or
\* fails while it is read (EIO).
open_errors == IF dest = Absent THEN {"ENOENT"} ELSE {"none", "EACCES", "EIO"}

\* A restore_last_project that lets every IOError through.
restore_open_reraises ==
    /\ spc = "restoring"
    /\ spc' = "idle"
    /\ \E e \in open_errors, named \in BOOLEAN :
          job' = IF e = "none" THEN [job EXCEPT !.parsed = dest]
                 ELSE [job EXCEPT !.raised = "IOError", !.errno = e,
                                  !.parsed = IF e = "EIO" THEN Cut(dest) ELSE Absent,
                                  !.escaped = "IOError",
                                  !.logged = FALSE]
    /\ UNCHANGED <<dest, bak, tmp, back, lifevars, filevars>>

\* open(filename) and restore_from: a missing file raises IOError; in
\* restore_last_project an IOError with errno ENOENT is dropped (and logged
\* when the project is not the default one), any other is raised again.
restore_open ==
    /\ spc = "restoring"
    /\ spc' = "idle"
    /\ \E e \in open_errors, named \in BOOLEAN :
          job' = IF e = "none" THEN [job EXCEPT !.parsed = dest]
                 ELSE [job EXCEPT !.raised = "IOError", !.errno = e,
                                  !.parsed = IF e = "EIO" THEN Cut(dest) ELSE Absent,
                                  !.escaped = IF e = "ENOENT" THEN "none"
                                              ELSE "IOError",
                                  !.logged = (e = "ENOENT" /\ named)]
    /\ UNCHANGED <<dest, bak, tmp, back, lifevars, filevars>>

\* restore_last_project cannot create its directories: os.mkdir raises an
\* OSError other than EEXIST, which is raised again before restore is called.
restore_mkdir_fail ==
    /\ spc \in {"idle", "crashed"}
    /\ job' = [job EXCEPT !.op = "mkdir", !.raised = "OSError",
                          !.errno = "EACCES", !.escaped = "OSError",
                          !.logged = FALSE]
    /\ UNCHANGED <<dest, bak, tmp, back, spc, lifevars, filevars>>

\* ======================= the project-file specification =======================
InitSave ==
    /\ tcp = FALSE /\ cfgd = FALSE /\ plugs = <<>> /\ btype = "Switch"
    /\ sudo = FALSE /\ homehost = "none"
    /\ proc = None /\ pid = 0 /\ alive = FALSE /\ run_condition = FALSE
    /\ active = FALSE /\ internal_console = "none" /\ sockopen = FALSE
    /\ mgmt = FALSE /\ need_restart = FALSE /\ pc = "idle" /\ polled = FALSE
    /\ last = [op |-> "none", raised |-> "none", ret |-> "none", logs |-> {},
               emitted |-> <<>>, sent |-> <<>>, spawned |-> 0, signals |-> 0,
               evstarts |-> 0, slot |-> NoSlot, conn |-> "n/a",
               after |-> "other", host |-> "none", nested |-> "none",
               started |-> FALSE]
    /\ dest \in {Absent} \cup {File(d, TRUE) : d \in Docs}
    /\ bak = Absent /\ tmp = Absent /\ back = Absent
    /\ spc = "idle"
    /\ job = NoJob
    /\ NoProject

NextSave ==
    \/ save_begin
    \/ save_copy
    \/ save_copy_fail
    \/ save_open
    \/ save_open_fail
    \/ save_write
    \/ save_write_fail
    \/ save_rename
    \/ save_rename_fail
    \/ save_end
    \/ Crash
    \/ restore_mkdir_fail
    \/ restore_backup
    \/ restore_open

SpecSave == InitSave /\ [][NextSave]_vars

\* ======================= strings =======================
\* str + str + ...
RECURSIVE concat(_)
concat(ss) == IF ss = <<>> THEN <<>> ELSE Head(ss) \o concat(Tail(ss))

\* str.split(sep)
RECURSIVE split(_, _)
split(s, sep) ==
    IF \A i \in DOMAIN s : s[i] # sep THEN <<s>>
    ELSE LET i == CHOOSE k \in DOMAIN s :
                      s[k] = sep /\ \A j \in 1..(k - 1) : s[j] # sep
         IN <<SubSeq(s, 1, i - 1)>> \o split(SubSeq(s, i + 1, Len(s)), sep)

\* str.split(sep, 1)
split1(s, sep) ==
    IF \A i \in DOMAIN s : s[i] # sep THEN <<s>>
    ELSE LET i == CHOOSE k \in DOMAIN s :
                      s[k] = sep /\ \A j \in 1..(k - 1) : s[j] # sep
         IN <<SubSeq(s, 1, i - 1), SubSeq(s, i + 1, Len(s))>>

\* str.rstrip(chars), str.lstrip(chars)
RECURSIVE rstrip(_, _)
rstrip(s, chars) ==
    IF s # <<>> /\ s[Len(s)] \in chars
    THEN rstrip(SubSeq(s, 1, Len(s) - 1), chars)
    ELSE s

RECURSIVE lstrip(_, _)
lstrip(s, chars) ==
    IF s # <<>> /\ s[1] \in chars THEN lstrip(Tail(s), chars) ELSE s

\* re.sub(' ', '', l)
sub_spaces(l) == SelectSeq(l, LAMBDA t : t # " ")

\* re.search("\A.*word\|", l): the word, then a bar, anywhere in the line.
search(word, l) == \E i \in 1..(Len(l) - 1) : l[i] = word /\ l[i + 1] = "|"

startswith(l, t) == l # <<>> /\ l[1] = t

\* ======================= the factory's objects =======================
NoSock == <<>>
\* virtualmachines.hostonly_sock, the shared pseudo-socket, by its nickname.
hostonly_sock == <<"_hostonly">>
TypeNames == {"Qemu", "Switch", "Tap"}

Sock(owner, nick, model, mac) ==
    [brick |-> owner, nickname |-> nick, model |-> model, mac |-> mac]
VMPlug(sock, mode, model, mac) ==
    [sock |-> sock, mode |-> mode, model |-> model, mac |-> mac]

\* The nickname a switch gives its port and a vm its n-th sock.
port_nick(name) == name \o <<"_port">>
eth_nick(name, n) == name \o <<"_sock_eth", ToString(n)>>

named(f, name) == {i \in DOMAIN f.bricks : f.bricks[i].name = name}
nicknames(f) == {f.socks[i].nickname : i \in DOMAIN f.socks}

\* factory.is_in_use(name)
is_in_use(f, name) ==
    \/ named(f, name) # {}
    \/ \E i \in DOMAIN f.events : f.events[i] = name
    \/ \E i \in DOMAIN f.disk_images : f.disk_images[i].name = name

\* factory.newbrick(ntype, name) can build the brick.
can_newbrick(f, ntype, name) ==
    /\ Len(ntype) = 1 /\ ntype[1] \in TypeNames
    /\ name # <<>>
    /\ ~is_in_use(f, name)

\* factory.newbrick(ntype, name): a switch comes with its port, a tap with
\* its one plug, a vm bare.
newbrick(f, ntype, name) ==
    LET t == ntype[1]
        ss == IF t = "Switch" THEN <<Sock(name, port_nick(name), <<>>, <<>>)>>
              ELSE <<>>
        ps == IF t = "Tap" THEN <<VMPlug(NoSock, "vde", <<>>, <<>>)>> ELSE <<>>
        b == [name |-> name, type |-> t, socks |-> ss, plugs |-> ps,
              cfg |-> <<>>, config_socks |-> <<>>]
    IN [f EXCEPT !.bricks = Append(@, b), !.socks = @ \o ss]

\* factory.newevent(ntype, name)
newevent(f, name) == [f EXCEPT !.events = Append(@, name)]

\* VM.add_sock(mac, model) on the i-th brick: the nickname is the brick's own.
add_sock(f, i, mac, model) ==
    LET b == f.bricks[i]
        s == Sock(b.name, eth_nick(b.name, Len(b.socks)), model, mac)
    IN [f EXCEPT !.bricks[i].socks = Append(@, s), !.socks = Append(@, s)]

\* VM.add_plug(sock, mac, model) on the i-th brick.
add_plug(f, i, sock, mac, model) ==
    LET p == VMPlug(sock, IF sock = hostonly_sock THEN "hostonly" ELSE "vde",
                    model, mac)
    IN [f EXCEPT !.bricks[i].plugs = Append(@, p)]

\* Plug.configured()
plug_configured(p) == p.sock # NoSock

\* Brick.connect(endpoint): the first plug that is not configured takes it.
brick_connect(b, endpoint) ==
    IF \E k \in DOMAIN b.plugs : ~plug_configured(b.plugs[k])
    THEN LET k == CHOOSE k \in DOMAIN b.plugs :
                      /\ ~plug_configured(b.plugs[k])
                      /\ \A j \in 1..(k - 1) : plug_configured(b.plugs[j])
         IN [b EXCEPT !.plugs[k].sock = endpoint]
    ELSE b

\* factory.connect_to(brick, nick): name-based lookup, then Brick.connect.
connect_to(f, i, nick) ==
    IF nick = hostonly_sock \/ nick \in nicknames(f)
    THEN [f EXCEPT !.bricks[i] = brick_connect(@, nick)]
    ELSE f

\* ======================= ConfigFile.save_to =======================
kv(key, value) == <<key, "=">> \o value
header(ntype, name) == <<"[", ntype, ":">> \o name \o <<"]">>

remote_host_lines(r) ==
    << header("RemoteHost", r.addr), kv("port", r.port),
       kv("password", r.password), kv("baseimages", r.baseimages),
       kv("qemupath", r.qemupath), kv("vdepath", r.vdepath),
       kv("bricksdirectory", r.bricksdirectory),
       kv("autoconnect", IF r.autoconnect THEN <<"True">> ELSE <<"False">>),
       <<>> >>

disk_image_lines(img) == << header("DiskImage", img.name), kv("path", img.path), <<>> >>

\* Event.save_to(fileobj): the section header, then a blank line.
event_save_to(name) == << header("Event", name), <<>> >>

\* Brick.save_to(fileobj): the section header, the settings, a blank line.
brick_save_to(b) ==
    <<header(b.type, b.name)>>
    \o [k \in DOMAIN b.cfg |-> kv(b.cfg[k].key, b.cfg[k].value)]
    \o << <<>> >>

\* A brick whose socks go to the trailer, with a sock| line for every brick.
socks_saved_any(b) == TRUE

\* if brick.get_type() == "Qemu": socks.extend(brick.socks)
socks_saved(b) == b.type = "Qemu"

saved_socks(f) ==
    concat([i \in DOMAIN f.bricks |->
               IF socks_saved(f.bricks[i]) THEN f.bricks[i].socks ELSE <<>>])

\* plugs.extend(p for p in brick.plugs if p.sock is not None), each plug
\* with the brick it belongs to.
saved_plugs(f) ==
    concat([i \in DOMAIN f.bricks |->
               LET b == f.bricks[i]
                   mine == [k \in DOMAIN b.plugs |->
                               [brick |-> b.name, type |-> b.type, p |-> b.plugs[k]]]
               IN SelectSeq(mine, LAMBDA x : x.p.sock # NoSock)])

sock_line(sk) ==
    <<"sock", "|">> \o sk.brick \o <<"|">> \o sk.nickname \o <<"|">>
    \o sk.model \o <<"|">> \o sk.mac

\* The line of a plug; a vm's plug in another mode than vde has none, its
\* template names {pl.mac} and format() is given p only.
plug_raises(x) == x.type = "Qemu" /\ x.p.mode # "vde"

plug_line(x) ==
    IF x.type = "Qemu"
    THEN <<"link", "|">> \o x.brick \o <<"|">> \o x.p.sock \o <<"|">>
         \o x.p.model \o <<"|">> \o x.p.mac
    ELSE <<"link", "|">> \o x.brick \o <<"|">> \o x.p.sock

RECURSIVE plug_lines(_)
plug_lines(xs) ==
    IF xs = <<>> THEN [lines |-> <<>>, raised |-> "none"]
    ELSE IF plug_raises(Head(xs)) THEN [lines |-> <<>>, raised |-> "KeyError"]
    ELSE LET r == plug_lines(Tail(xs))
         IN [lines |-> <<plug_line(Head(xs))>> \o r.lines, raised |-> r.raised]

\* What save_to writes for the factory f, and the exception that ends it.
save_lines(f) ==
    LET r == plug_lines(saved_plugs(f))
    IN [lines |->
            concat([i \in DOMAIN f.remote_hosts |-> remote_host_lines(f.remote_hosts[i])])
            \o concat([i \in DOMAIN f.disk_images |-> disk_image_lines(f.disk_images[i])])
            \o concat([i \in DOMAIN f.events |-> event_save_to(f.events[i])])
            \o concat([i \in DOMAIN f.bricks |-> brick_save_to(f.bricks[i])])
            \o [i \in DOMAIN saved_socks(f) |-> sock_line(saved_socks(f)[i])]
            \o r.lines,
        raised |-> r.raised]

save_to ==
    /\ fpc = "built"
    /\ fileobj' = save_lines(factory).lines
    /\ fpc' = IF save_lines(factory).raised = "none" THEN "saved" ELSE "raised"
    /\ flast' = [op |-> "save", line |-> <<>>,
                 raised |-> save_lines(factory).raised, logs |-> <<>>]
    /\ UNCHANGED <<factory, orig, rpos, lifevars, savevars>>

\* ======================= ConfigFile.restore_from =======================
Unknown == <<"?">>

\* The lookup of a link record's sock that settles for the first sock the
\* factory has when the name is not found.
this_sock_lenient(f, sockname) ==
    IF sockname = hostonly_sock THEN hostonly_sock
    ELSE IF sockname \in nicknames(f) THEN sockname
    ELSE IF f.socks # <<>> THEN f.socks[1].nickname
    ELSE hostonly_sock

\* this_sock: the host-only pseudo-socket, the factory's sock of that
\* nickname, or "?".
this_sock(f, sockname) ==
    IF sockname = hostonly_sock THEN hostonly_sock
    ELSE IF sockname \in nicknames(f) THEN sockname
    ELSE Unknown

Went(f, raised, logs) == [f |-> f, raised |-> raised, logs |-> logs]

\* if re.search("\A.*sock\|", l) and len(l.split("|")) >= 3: ...
sock_detected(f, l) ==
    LET fs == split(l, "|")
        hits == named(f, fs[2])
        i == CHOOSE k \in hits : TRUE
    IN IF ~(search("sock", l) /\ Len(fs) >= 3) THEN Went(f, "none", <<>>)
       ELSE IF hits = {} \/ f.bricks[i].type # "Qemu"
            THEN Went(f, "none", <<"sock detected">>)
       ELSE IF Len(fs) < 5 THEN Went(f, "IndexError", <<"sock detected">>)
       ELSE Went(add_sock(f, i, fs[5], fs[4]), "none", <<"sock detected">>)

\* A link branch that connects the brick of another type than Qemu at once.
link_detected_at_once(f, l) ==
    LET fs == split(l, "|")
        hits == named(f, fs[2])
        i == CHOOSE k \in hits : TRUE
    IN IF ~(search("link", l) /\ Len(fs) >= 3) THEN Went(f, "none", <<>>)
       ELSE IF hits = {} THEN Went(f, "none", <<"link detected">>)
       ELSE IF f.bricks[i].type # "Qemu"
            THEN Went(connect_to([f EXCEPT !.bricks[i].config_socks = Append(@, fs[3])],
                                 i, fs[3]),
                      "none", <<"link detected">>)
       ELSE IF Len(fs) < 5 THEN Went(f, "IndexError", <<"link detected">>)
       ELSE IF this_sock(f, fs[3]) = Unknown
            THEN Went(f, "none", <<"link detected", "warning: socket not found">>)
       ELSE Went(add_plug(f, i, this_sock(f, fs[3]), fs[5], fs[4]),
                 "none", <<"link detected">>)

\* if re.search("\A.*link\|", l) and len(l.split("|")) >= 3: ...
link_detected(f, l) ==
    LET fs == split(l, "|")
        hits == named(f, fs[2])
        i == CHOOSE k \in hits : TRUE
    IN IF ~(search("link", l) /\ Len(fs) >= 3) THEN Went(f, "none", <<>>)
       ELSE IF hits = {} THEN Went(f, "none", <<"link detected">>)
       ELSE IF f.bricks[i].type # "Qemu"
            THEN Went([f EXCEPT !.bricks[i].config_socks = Append(@, fs[3])],
                      "none", <<"link detected">>)
       ELSE IF Len(fs) < 5 THEN Went(f, "IndexError", <<"link detected">>)
       ELSE IF this_sock(f, fs[3]) = Unknown
            THEN Went(f, "none", <<"link detected", "warning: socket not found">>)
       ELSE Went(add_plug(f, i, this_sock(f, fs[3]), fs[5], fs[4]),
                 "none", <<"link detected">>)

\* Brick.load_from(fileobj), Event.load_from(fileobj): the key=value lines
\* that follow the header, up to the first line that is none.
is_setting(l) == ~startswith(l, "[") /\ Len(split1(l, "=")) = 2 /\ split1(l, "=")[1] # <<>>

RECURSIVE settings_end(_, _)
settings_end(lines, p) ==
    IF p <= Len(lines) /\ is_setting(lines[p]) THEN settings_end(lines, p + 1) ELSE p

settings(lines, p) ==
    [k \in 1..(settings_end(lines, p) - p) |->
        [key |-> split1(lines[p + k - 1], "=")[1][1],
         value |-> split1(lines[p + k - 1], "=")[2]]]

\* What one section header leads to: the factory, the line the loop goes
\* on with, the exception that leaves restore_from, the log.
Sect(f, pos, raised, logs) == [f |-> f, pos |-> pos, raised |-> raised, logs |-> logs]

\* The inline loop of a [DiskImage:...] section, from line p on: the line it
\* stops at, the path it has read, whether split("=", 1) gave one piece only.
RECURSIVE disk_image_loop(_, _, _)
disk_image_loop(lines, p, path) ==
    IF p > Len(lines) \/ startswith(lines[p], "[")
    THEN [p |-> p, path |-> path, bad |-> FALSE]
    ELSE IF lstrip(rstrip(lines[p], {" "}), {" "}) = <<>>
    THEN disk_image_loop(lines, p + 1, path)
    ELSE IF Len(split1(lstrip(rstrip(lines[p], {" "}), {" "}), "=")) < 2
    THEN [p |-> p, path |-> path, bad |-> TRUE]
    ELSE LET kvs == split1(lstrip(rstrip(lines[p], {" "}), {" "}), "=")
         IN disk_image_loop(lines, p + 1,
                            IF kvs[1] = <<"path">> THEN kvs[2] ELSE path)

\* factory.new_disk_image(path)
new_disk_image(f, path) ==
    [f EXCEPT !.disk_images = Append(@, [name |-> path, path |-> path])]

disk_image_section(f, lines, pos, name, readable) ==
    IF pos + 1 > Len(lines) \/ lines[pos + 1] = <<>>
    THEN \* l is '' here and no path was read: os.access('') fails, and the
         \* outer "while (l)" ends
         Sect(f, Len(lines) + 1, "none", <<>>)
    ELSE LET r == disk_image_loop(lines, pos + 1, <<>>)
         IN IF r.bad THEN Sect(f, r.p + 1, "none", <<"Bad config line">>)
            ELSE IF is_in_use(f, name) THEN Sect(f, r.p, "none", <<"Skipping disk image">>)
            ELSE IF r.path = <<>> \/ ~readable THEN Sect(f, r.p, "none", <<>>)
            ELSE Sect(new_disk_image(f, r.path), r.p, "none", <<>>)

\* factory.get_host_by_name(name): the host of that address, made if need be.
NewHost(name) ==
    [addr |-> name, port |-> <<>>, password |-> <<>>, baseimages |-> <<>>,
     baseimage |-> <<>>, qemupath |-> <<>>, vdepath |-> <<>>,
     bricksdirectory |-> <<>>, autoconnect |-> FALSE, connected |-> FALSE]

host_index(f, name) ==
    IF \E i \in DOMAIN f.remote_hosts : f.remote_hosts[i].addr = name
    THEN CHOOSE i \in DOMAIN f.remote_hosts : f.remote_hosts[i].addr = name
    ELSE Len(f.remote_hosts) + 1

get_host_by_name(f, name) ==
    IF \E i \in DOMAIN f.remote_hosts : f.remote_hosts[i].addr = name THEN f
    ELSE [f EXCEPT !.remote_hosts = Append(@, NewHost(name))]

host_set(h, k, v) ==
    IF k = <<"password">> THEN [h EXCEPT !.password = v]
    ELSE IF k = <<"autoconnect">> /\ v = <<"True">> THEN [h EXCEPT !.autoconnect = TRUE]
    ELSE IF k = <<"baseimages">> THEN [h EXCEPT !.baseimage = v]
    ELSE IF k = <<"vdepath">> THEN [h EXCEPT !.vdepath = v]
    ELSE IF k = <<"qemupath">> THEN [h EXCEPT !.qemupath = v]
    ELSE IF k = <<"bricksdirectory">> THEN [h EXCEPT !.bricksdirectory = v]
    ELSE h

\* The inline loop of a [RemoteHost:...] section, from line p on.
RECURSIVE remote_host_loop(_, _, _)
remote_host_loop(lines, p, h) ==
    IF p > Len(lines) \/ startswith(lines[p], "[")
    THEN [p |-> p, h |-> h, bad |-> FALSE]
    ELSE IF Len(split(lines[p], "=")) # 2 THEN [p |-> p, h |-> h, bad |-> TRUE]
    ELSE remote_host_loop(lines, p + 1,
                          host_set(h, split(lines[p], "=")[1], split(lines[p], "=")[2]))

remote_host_section(f, lines, pos, name) ==
    LET g == get_host_by_name(f, name)
        i == host_index(f, name)
        r == remote_host_loop(lines, pos + 1, g.remote_hosts[i])
    IN IF r.bad
       THEN Sect([g EXCEPT !.remote_hosts[i] = r.h], r.p + 1, "none",
                 <<"Bad config line">>)
       ELSE Sect([g EXCEPT !.remote_hosts[i] =
                      [r.h EXCEPT !.connected = r.h.autoconnect]],
                 r.p, "none", <<>>)

\* if l.startswith('['): ...
section(f, lines, pos, l, readable) ==
    LET ntype == split(lstrip(l, {"["}), ":")[1]
        name == rstrip(split(l, ":")[2], {"]"})
        body == pos + 1
        next == settings_end(lines, body)
    IN IF Len(split(l, ":")) < 2 THEN Sect(f, pos, "IndexError", <<>>)
       ELSE IF ntype = <<"Event">>
       THEN IF is_in_use(f, name) THEN Sect(f, pos + 1, "none", <<"Bad config line">>)
            ELSE Sect(newevent(f, name), next, "none", <<>>)
       ELSE IF ntype = <<"DiskImage">>
       THEN disk_image_section(f, lines, pos, name, readable)
       ELSE IF ntype = <<"RemoteHost">>
       THEN remote_host_section(f, lines, pos, name)
       ELSE IF ~can_newbrick(f, ntype, name)
       THEN Sect(f, pos + 1, "none", <<"Bad config line">>)
       ELSE Sect([newbrick(f, ntype, name)
                     EXCEPT !.bricks[Len(f.bricks) + 1].cfg = settings(lines, body)],
                 next, "none", <<>>)

\* One turn of "while (l):" on the line at pos.
loop_body(f, lines, pos, readable) ==
    LET l == sub_spaces(lines[pos])
        a == sock_detected(f, l)
        b == link_detected(a.f, l)
        c == section(b.f, lines, pos, l, readable)
    IN IF a.raised # "none" THEN Sect(a.f, pos, a.raised, a.logs)
       ELSE IF b.raised # "none" THEN Sect(b.f, pos, b.raised, a.logs \o b.logs)
       ELSE IF startswith(l, "[")
       THEN Sect(c.f, c.pos, c.raised, a.logs \o b.logs \o c.logs)
       ELSE Sect(b.f, pos + 1, "none", a.logs \o b.logs)

\* for b in iter(factory.bricks): for c in b.config_socks: factory.connect_to(b, c)
RECURSIVE connect_pending(_, _, _)
connect_pending(f, i, k) ==
    IF i > Len(f.bricks) THEN f
    ELSE IF k > Len(f.bricks[i].config_socks) THEN connect_pending(f, i + 1, 1)
    ELSE connect_pending(connect_to(f, i, f.bricks[i].config_socks[k]), i, k + 1)

restore_begin ==
    /\ fpc = "saved"
    /\ factory' = EmptyFactory
    /\ rpos' = 1
    /\ fpc' = "reading"
    /\ flast' = [op |-> "open", line |-> <<>>, raised |-> "none", logs |-> <<>>]
    /\ UNCHANGED <<orig, fileobj, lifevars, savevars>>

restore_line ==
    /\ fpc = "reading"
    /\ rpos <= Len(fileobj)
    /\ \E readable \in BOOLEAN :
          LET r == loop_body(factory, fileobj, rpos, readable)
          IN /\ factory' = r.f
             /\ rpos' = r.pos
             /\ fpc' = IF r.raised = "none" THEN "reading" ELSE "raised"
             /\ flast' = [op |-> "line", line |-> sub_spaces(fileobj[rpos]),
                          raised |-> r.raised, logs |-> r.logs]
    /\ UNCHANGED <<orig, fileobj, lifevars, savevars>>

restore_end ==
    /\ fpc = "reading"
    /\ rpos > Len(fileobj)
    /\ factory' = connect_pending(factory, 1, 1)
    /\ fpc' = "done"
    /\ flast' = [op |-> "end", line |-> <<>>, raised |-> "none", logs |-> <<>>]
    /\ UNCHANGED <<orig, fileobj, rpos, lifevars, savevars>>

restore_from == restore_begin \/ restore_line \/ restore_end

\* ======================= the environment of the project text =======================
\* The project file is plain text: between two sessions a link record may
\* be put in by hand, or come from another project.
BadSock == <<"bad", "sock">>
Ghost == <<"ghost">>
Model == <<"e1000">>
Mac == <<"AA:BB">>

link5(name, nick) ==
    <<"link", "|">> \o name \o <<"|">> \o nick \o <<"|">> \o Model \o <<"|">> \o Mac
link3(name, nick) == <<"link", "|">> \o name \o <<"|">> \o nick

ForeignLines(f) ==
    UNION {{link5(f.bricks[i].name, BadSock), link5(f.bricks[i].name, Ghost),
            link3(f.bricks[i].name, Ghost)} :
           i \in {k \in DOMAIN f.bricks : f.bricks[k].type = "Qemu"}}

is_trailer(l) == search("sock", l) \/ search("link", l)

\* Where the trailer of a saved file begins.
trailer_start(lines) ==
    IF \E k \in DOMAIN lines : is_trailer(lines[k])
    THEN CHOOSE k \in DOMAIN lines :
             is_trailer(lines[k]) /\ \A j \in 1..(k - 1) : ~is_trailer(lines[j])
    ELSE Len(lines) + 1

edit_file ==
    /\ fpc = "saved"
    /\ flast.op = "save"
    /\ \E t \in ForeignLines(orig) :
          fileobj' = SubSeq(fileobj, 1, trailer_start(fileobj) - 1) \o <<t>>
                     \o SubSeq(fileobj, trailer_start(fileobj), Len(fileobj))
    /\ flast' = [op |-> "edit", line |-> <<>>, raised |-> "none", logs |-> <<>>]
    /\ UNCHANGED <<factory, orig, rpos, fpc, lifevars, savevars>>

\* A section header put in by hand at the top of the file: one of a type no
\* brick has, one without its ':', one under a name the file declares again.
ForeignHeaders(f) ==
    {<<"[", "Bogus", ":", "ghost", "]">>, <<"[", "Qemu", "ghost", "]">>}
    \cup {header(f.bricks[i].type, f.bricks[i].name) : i \in DOMAIN f.bricks}

edit_section ==
    /\ fpc = "saved"
    /\ flast.op = "save"
    /\ \E t \in ForeignHeaders(orig) : fileobj' = <<t>> \o fileobj
    /\ flast' = [op |-> "edit", line |-> <<>>, raised |-> "none", logs |-> <<>>]
    /\ UNCHANGED <<factory, orig, rpos, fpc, lifevars, savevars>>

\* A link record of a brick of another type than Qemu moved by hand from
\* the trailer to the line before the section of the brick that owns the
\* sock, a section that comes after the brick's own.
edit_link_up ==
    /\ fpc = "saved"
    /\ flast.op = "save"
    /\ \E i, j \in DOMAIN orig.bricks, k, p \in DOMAIN fileobj :
          /\ i < j /\ p < k
          /\ orig.bricks[i].type # "Qemu"
          /\ fileobj[p] = header(orig.bricks[j].type, orig.bricks[j].name)
          /\ \E s \in DOMAIN orig.bricks[j].socks :
                fileobj[k] = link3(orig.bricks[i].name, orig.bricks[j].socks[s].nickname)
          /\ fileobj' = SubSeq(fileobj, 1, p - 1) \o <<fileobj[k]>>
                        \o SubSeq(fileobj, p, k - 1)
                        \o SubSeq(fileobj, k + 1, Len(fileobj))
    /\ flast' = [op |-> "edit", line |-> <<>>, raised |-> "none", logs |-> <<>>]
    /\ UNCHANGED <<factory, orig, rpos, fpc, lifevars, savevars>>

\* ======================= the projects a session can hold =======================
MaxBricks == 2

\* The bricks a project is made of: a name and the type made under it.
Catalogue ==
    { [name |-> <<"sw">>, type |-> "Switch"],
      [name |-> <<"l", " ", "n">>, type |-> "Switch"],
      [name |-> <<"tap">>, type |-> "Tap"],
      [name |-> <<"vm">>, type |-> "Qemu"],
      [name |-> <<"my", "sock">>, type |-> "Qemu"] }

KindSeqs ==
    {ks \in UNION {[1..n -> Catalogue] : n \in 1..MaxBricks} :
        \A i, j \in DOMAIN ks : i # j => ks[i].name # ks[j].name}

RECURSIVE with_bricks(_, _)
with_bricks(ks, n) ==
    IF n = 0 THEN EmptyFactory
    ELSE LET g == newbrick(with_bricks(ks, n - 1), <<ks[n].type>>, ks[n].name)
         IN IF ks[n].type = "Qemu"
            THEN [g EXCEPT !.bricks[n].cfg = <<[key |-> "ram", value |-> <<"64">>]>>]
            ELSE g

RECURSIVE with_socks(_, _, _)
with_socks(f, has, n) ==
    IF n = 0 THEN f
    ELSE IF has[n] THEN add_sock(with_socks(f, has, n - 1), n, Mac, Model)
    ELSE with_socks(f, has, n - 1)

\* The i-th brick's plug takes the sock of that nickname (a vm gets the plug
\* with it, a tap has its own).
RECURSIVE with_plugs(_, _, _)
with_plugs(f, to, n) ==
    IF n = 0 THEN f
    ELSE LET g == with_plugs(f, to, n - 1)
         IN IF to[n] = NoSock THEN g
            ELSE IF g.bricks[n].type = "Qemu" THEN add_plug(g, n, to[n], Mac, Model)
            ELSE connect_to(g, n, to[n])

Targets(f, i) ==
    {NoSock}
    \cup (IF f.bricks[i].type = "Qemu" THEN {hostonly_sock} ELSE {})
    \cup (IF f.bricks[i].type = "Switch" THEN {}
          ELSE {f.socks[k].nickname :
                    k \in {j \in DOMAIN f.socks : f.socks[j].brick # f.bricks[i].name}})

Wired(f) ==
    {with_plugs(f, to, Len(f.bricks)) :
        to \in {t \in [DOMAIN f.bricks -> {NoSock, hostonly_sock} \cup nicknames(f)] :
                   \A i \in DOMAIN f.bricks : t[i] \in Targets(f, i)}}

Socked(ks) ==
    {with_socks(with_bricks(ks, Len(ks)), has, Len(ks)) :
        has \in {h \in [DOMAIN ks -> BOOLEAN] :
                    \A i \in DOMAIN ks : h[i] => ks[i].type = "Qemu"}}

Projects == UNION {UNION {Wired(f) : f \in Socked(ks)} : ks \in KindSeqs}

\* ======================= the project-text specification =======================
InitFile ==
    /\ tcp = FALSE /\ cfgd = FALSE /\ plugs = <<>> /\ btype = "Switch"
    /\ sudo = FALSE /\ homehost = "none"
    /\ proc = None /\ pid = 0 /\ alive = FALSE /\ run_condition = FALSE
    /\ active = FALSE /\ internal_console = "none" /\ sockopen = FALSE
    /\ mgmt = FALSE /\ need_restart = FALSE /\ pc = "idle" /\ polled = FALSE
    /\ last = [op |-> "none", raised |-> "none", ret |-> "none", logs |-> {},
               emitted |-> <<>>, sent |-> <<>>, spawned |-> 0, signals |-> 0,
               evstarts |-> 0, slot |-> NoSlot, conn |-> "n/a",
               after |-> "other", host |-> "none", nested |-> "none",
               started |-> FALSE]
    /\ dest = Absent /\ bak = Absent /\ tmp = Absent /\ back = Absent
    /\ spc = "idle"
    /\ job = NoJob
    /\ factory \in Projects
    /\ orig = factory
    /\ fileobj = <<>>
    /\ rpos = 0
    /\ fpc = "built"
    /\ flast = NoStep

NextFile ==
    \/ save_to
    \/ edit_file
    \/ edit_section
    \/ edit_link_up
    \/ restore_begin
    \/ restore_line
    \/ restore_end

SpecFile == InitFile /\ [][NextFile]_vars

\* ======================= claims =======================
GuardErrors == {"BadConfigError", "NotConnectedError", "LinkLoopError"}

\* A poweroff call that came right after a poweron that spawned, on a brick
\* with no home host, and has returned.
StoppedAfterSpawn ==
    /\ last.op = "poweroff" /\ last.after = "spawn" /\ last.host = "none"
    /\ pc = "idle" /\ last.raised = "none"

\* C1 as stated: for a brick with no home host, once poweron has spawned the
\* process and poweroff has been called and has returned, the process handle
\* is none and active is false.
C1_Original == StoppedAfterSpawn => (proc = None /\ ~active)

\* C1, amended: the same, unless poweroff returned from one of its two abort
\* points (tracked PID <= 1, or a non-zero exit status of the kill command),
\* where the handle is left in place.
C1_PoweroffAfterPoweron ==
    (StoppedAfterSpawn /\ last.ret \notin {"pid", "kill"}) => (proc = None /\ ~active)

C1_Witness ==
    /\ StoppedAfterSpawn /\ last.ret = "done" /\ last.signals > 0
    /\ proc = None /\ ~active

\* C2 as stated: a poweron call on a brick that has a process handle spawns
\* nothing, leaves handle and PID alone, emits no brick-started and raises nothing.
C2_Original ==
    [][(poweron /\ proc # None) =>
          /\ last'.spawned = 0 /\ proc' = proc /\ pid' = pid
          /\ \A i \in DOMAIN last'.emitted : last'.emitted[i] # "brick-started"
          /\ last'.raised = "none"]_vars

\* C2, amended: the same for a call that passes the guards (or runs under the
\* TCP-control mode, where none is tested); a running brick that fails a
\* guard still gets the guard's error, and nothing else changes.
C2_PoweronIdempotent ==
    [][(poweron /\ proc # None) =>
          /\ last'.spawned = 0 /\ proc' = proc /\ pid' = pid
          /\ \A i \in DOMAIN last'.emitted : last'.emitted[i] # "brick-started"
          /\ last'.raised = guard_error]_vars

C2_Witness ==
    /\ last.op = "poweron" /\ last.ret = "229" /\ last.raised = "none"
    /\ proc # None /\ last.spawned = 0

\* C3 as stated: without TCP-control mode, a poweron call on a brick with an
\* unconfigured plug raises NotConnectedError and spawns no process.
C3_Original ==
    [][(poweron /\ ~tcp /\ ~properly_connected) =>
          /\ last'.raised = "NotConnectedError"
          /\ last'.spawned = 0 /\ proc' = proc]_vars

\* C3, amended: this holds for a brick that reports itself configured; an
\* unconfigured brick fails with the configuration error instead. No
\* process is spawned either way.
C3_UnconfiguredPlug ==
    [][(poweron /\ ~tcp /\ ~properly_connected) =>
          /\ last'.raised = (IF cfgd THEN "NotConnectedError" ELSE "BadConfigError")
          /\ last'.spawned = 0 /\ proc' = proc]_vars

C3_Witness ==
    /\ last.op = "poweron" /\ last.raised = "NotConnectedError"
    /\ ~tcp /\ cfgd /\ ~properly_connected /\ Len(plugs) >= 1
    /\ ~plugs[1].configured
    /\ proc = None /\ last.spawned = 0

\* C4: a poweron call that raises a guard error changes nothing of the brick
\* (handle, PID, run flag, active flag, console), spawns nothing, forwards
\* nothing and emits no notification.
C4_GuardErrorFrame ==
    [][(poweron /\ last'.raised \in GuardErrors) =>
          /\ UNCHANGED <<proc, pid, run_condition, active, internal_console,
                         alive, sockopen>>
          /\ last'.spawned = 0 /\ last'.sent = <<>> /\ last'.emitted = <<>>]_vars

C4_Witness ==
    /\ last.op = "poweron" /\ last.raised \in GuardErrors
    /\ proc # None /\ run_condition /\ active /\ internal_console = "sock"

\* ---- the project file ----
IsPrefix(a, b) == Len(a) <= Len(b) /\ \A i \in DOMAIN a : a[i] = b[i]

\* restore has returned after a save, onto an existing whole project file,
\* during which the process died; restore_backup met no failing system call.
RestoredAfterCrash ==
    /\ job.op = "restore" /\ spc = "idle" /\ job.raised = "none"
    /\ job.crashed /\ job.old.exists /\ job.old.whole
    /\ job.first \in {"none", "rename", "ENOENT"}
    /\ job.path \in {"none", "rename"}

\* C5: if the process dies at any point of a save onto an existing project
\* file, then after the next restore the project file holds the whole old
\* content or the whole new content.
C5_CrashSafe ==
    RestoredAfterCrash => dest \in {job.old, File(job.new, TRUE)}

\* C6: save onto an existing project file copies it to filename~, writes the
\* temp file, renames it over the project file and deletes filename~, in this
\* order; filename~ is gone only once the project file holds the new content;
\* with no project file beforehand, no backup is created or deleted.
C6_SaveOrder ==
    job.op = "save" =>
        /\ IsPrefix(job.ops, IF job.old.exists
                             THEN <<"copy", "write", "rename", "remove">>
                             ELSE <<"write", "rename">>)
        /\ (job.old.exists /\ ~bak.exists) => dest = File(job.new, TRUE)
        /\ (~job.old.exists) => bak = job.bak0

C6_Witness ==
    /\ job.op = "save" /\ spc = "idle" /\ job.raised = "none"
    /\ job.ops = <<"copy", "write", "rename", "remove">>
    /\ ~bak.exists /\ dest = File(job.new, TRUE) /\ dest # job.old

\* restore found filename~ and is about to parse (or has parsed and returned).
RestoringWithBackup ==
    /\ job.op = "restore" /\ job.had.exists
    /\ spc = "restoring" \/ (spc = "idle" /\ job.raised = "none")

Spaceless(str) == \A k \in DOMAIN str : str[k] # " "
\* No brick name and no sock nickname of the factory holds a blank.
WellFormed(f) ==
    /\ \A i \in DOMAIN f.bricks : Spaceless(f.bricks[i].name)
    /\ \A k \in DOMAIN f.socks : Spaceless(f.socks[k].nickname)
\* The file is as save_to wrote it.
Untouched == fileobj = save_lines(orig).lines
BrickNameSet(f) == {f.bricks[i].name : i \in DOMAIN f.bricks}
SockSet(f) ==
    UNION {{<<f.bricks[i].name, f.bricks[i].socks[k].nickname>> :
               k \in DOMAIN f.bricks[i].socks} : i \in DOMAIN f.bricks}
BindingSet(f) ==
    UNION {{<<f.bricks[i].name, f.bricks[i].plugs[k].sock>> :
               k \in {j \in DOMAIN f.bricks[i].plugs :
                         f.bricks[i].plugs[j].sock # NoSock}} :
           i \in DOMAIN f.bricks}

\* C8: for every project whose brick names and sock nicknames are unique and
\* hold no whitespace, once the file save_to wrote has been read back by
\* restore_from, the factory has the same brick names, the same socks (owner,
\* nickname) and the same plug bindings (owner, nickname of the bound sock)
\* as the factory that was saved.
C8_RoundTrip ==
    (fpc = "done" /\ Untouched /\ WellFormed(orig)) =>
        /\ BrickNameSet(factory) = BrickNameSet(orig)
        /\ SockSet(factory) = SockSet(orig)
        /\ BindingSet(factory) = BindingSet(orig)

\* The pairs (switch, vm) of the saved project where the vm has a plug bound
\* to the switch's sock.
SwitchVmPairs ==
    {pr \in (DOMAIN orig.bricks) \X (DOMAIN orig.bricks) :
        /\ orig.bricks[pr[1]].type = "Switch"
        /\ orig.bricks[pr[2]].type = "Qemu"
        /\ \E k \in DOMAIN orig.bricks[pr[2]].plugs :
              /\ orig.bricks[pr[2]].plugs[k].mode = "vde"
              /\ orig.bricks[pr[2]].plugs[k].sock = orig.bricks[pr[1]].socks[1].nickname}
SwitchOf(pr) == orig.bricks[pr[1]]
VmOf(pr) == orig.bricks[pr[2]]
SockLineFor(l, pr) ==
    /\ Len(split(l, "|")) >= 3
    /\ split(l, "|")[1] = <<"sock">>
    /\ split(l, "|")[2] = SwitchOf(pr).name
    /\ split(l, "|")[3] = SwitchOf(pr).socks[1].nickname
LinkLineFor(l, pr) ==
    /\ Len(split(l, "|")) >= 3
    /\ split(l, "|")[1] = <<"link">>
    /\ split(l, "|")[2] = VmOf(pr).name
    /\ split(l, "|")[3] = SwitchOf(pr).socks[1].nickname
\* After the reload the vm has a plug bound to the sock the switch owns.
Rebound(pr) ==
    \E i, j \in DOMAIN factory.bricks :
        /\ factory.bricks[i].name = sub_spaces(SwitchOf(pr).name)
        /\ factory.bricks[i].type = "Switch"
        /\ factory.bricks[j].name = sub_spaces(VmOf(pr).name)
        /\ \E k \in DOMAIN factory.bricks[j].plugs, n \in DOMAIN factory.bricks[i].socks :
              factory.bricks[j].plugs[k].sock = factory.bricks[i].socks[n].nickname

DanglingLink ==
    /\ fpc = "reading" /\ rpos <= Len(fileobj)
    /\ LET fs == split(sub_spaces(fileobj[rpos]), "|")
       IN /\ Len(fs) >= 5
          /\ fs[1] = <<"link">>
          /\ \E i \in named(factory, fs[2]) : factory.bricks[i].type = "Qemu"
          /\ fs[3] # hostonly_sock
          /\ fs[3] \notin nicknames(factory)

HeaderOnTop == fileobj # <<>> /\ Tail(fileobj) = save_lines(orig).lines

\* C11: a section header that cannot be turned into an entity (unknown type,
\* name in use, no ':') never makes restore_from raise, and once the file is
\* read every brick the file declares after it is in the factory.
C11_BadHeaderSkipped ==
    /\ (flast.op = "line" /\ startswith(flast.line, "[")) => flast.raised = "none"
    /\ (fpc = "done" /\ HeaderOnTop) =>
          \A i \in DOMAIN orig.bricks :
              sub_spaces(orig.bricks[i].name) \in BrickNameSet(factory)

\* ---- the lifecycle, continued ----
\* C12: a poweron that passes the guards, and any poweroff, returns normally
\* whatever the operating system answers: no exception other than a guard
\* error ever leaves poweron or poweroff.
C12_NoOsErrorEscapes ==
    (last.op \in {"poweron", "poweroff"}) =>
        last.raised \in GuardErrors \cup {"none", "running"}

C14_HostDownLogged ==
    [][(poweron /\ guard_error = "none" /\ proc = None
               /\ homehost # "none" /\ last'.conn = "down") =>
           /\ last'.logs \cap {"error", "exception"} # {}
           /\ last'.sent = <<>> /\ last'.spawned = 0
           /\ last'.raised = "none"
           /\ proc' = None]_vars

\* C15: a poweron call on a guard-passing brick without process handle whose
\* home host is connected forwards "<name> on" once, spawns nothing, raises
\* nothing and leaves the process handle unset.
C15_HostUpForwards ==
    [][(poweron /\ guard_error = "none" /\ proc = None
               /\ homehost # "none" /\ last'.conn = "up") =>
           /\ last'.sent = <<"name on">>
           /\ last'.spawned = 0
           /\ last'.raised = "none"
           /\ proc' = None]_vars

\* C16: a poweroff call on a brick with a process handle, a true run flag and
\* a home host forwards exactly one "<name> off" line, clears the process
\* handle at once, issues no signal or kill, does not enter the poll loop,
\* emits nothing and returns.
C16_RemotePoweroff ==
    [][(poweroff /\ proc # None /\ run_condition /\ homehost # "none") =>
           /\ last'.sent = <<"name off\n">>
           /\ proc' = None
           /\ ~run_condition'
           /\ last'.signals = 0
           /\ pc' = "idle" /\ last'.ret = "remote"
           /\ last'.emitted = <<>>
           /\ last'.raised = "none"]_vars

\* The stop was forwarded while the locally tracked process was still alive.
C16_Witness ==
    /\ last.op = "poweroff" /\ last.ret = "remote"
    /\ last.sent = <<"name off\n">> /\ last.signals = 0
    /\ proc = None /\ alive /\ pc = "idle"

\* A poweroff call that reaches the local stop of a live process.
LocalStopOfLive ==
    /\ poweroff /\ pc = "idle"
    /\ proc # None /\ run_condition /\ homehost = "none" /\ alive

\* C17 as stated: in a local poweroff of a live process, when the
\* termination signal or the kill command fails, the failure is logged,
\* poweroff returns without polling, the handle stays and no brick-stopped
\* is emitted.
C17_Original ==
    [][(LocalStopOfLive /\ ("sigterm" \in last'.logs \/ last'.ret = "kill")) =>
           /\ last'.logs # {}
           /\ pc' = "idle"
           /\ proc' = proc
           /\ last'.emitted = <<>>]_vars

\* C17, amended: a kill command that exits non-zero is logged and aborts the
\* stop (no polling, handle kept, no brick-stopped, nothing raised); a
\* failing termination signal is logged only: the kill command is still
\* issued and its exit status alone decides between abort and poll loop.
C17_KillFailureAborts ==
    [][LocalStopOfLive =>
           /\ (last'.ret = "kill") =>
                  /\ "error" \in last'.logs
                  /\ pc' = "idle" /\ proc' = proc
                  /\ last'.emitted = <<>> /\ last'.raised = "none"
           /\ ("sigterm" \in last'.logs) =>
                  /\ last'.signals = 2
                  /\ last'.ret \in {"kill", "loop"}
                  /\ proc' = proc
                  /\ (last'.ret = "loop") = (pc' = "polling")]_vars

\* The kill command has just failed and the handle is still in place.
C17_Witness ==
    /\ last.op = "poweroff" /\ last.ret = "kill" /\ "error" \in last.logs
    /\ proc # None /\ pc = "idle" /\ ~run_condition /\ alive

\* C18: a poweroff call on a brick without process handle or with a false run
\* flag does nothing; the run flag is false whenever a call sits in the poll
\* loop; a poweroff called during that loop returns at once without
\* signalling, polling or emitting; and the teardown runs on a brick that
\* has a process handle and clears it, so it runs once per started process.
C18_NoReentrantStop ==
    [][/\ (poweroff /\ pc = "idle" /\ (proc = None \/ ~run_condition)) =>
              /\ UNCHANGED <<brickvars, alive, sockopen, pc>>
              /\ last'.ret = "noop" /\ last'.signals = 0
              /\ last'.emitted = <<>> /\ last'.raised = "none"
       /\ (pc' = "polling") => ~run_condition'
       /\ poweroff_reentrant =>
              /\ UNCHANGED <<brickvars, alive, sockopen, pc, polled>>
              /\ last'.nested = "noop"
              /\ last'.signals = last.signals /\ last'.emitted = last.emitted
       /\ poweroff_finish =>
              /\ proc # None /\ proc' = None
              /\ last.nested # "stop"
              /\ last'.emitted = <<"brick-stopped">>]_vars

\* A stop during whose poll loop poweroff was called again has finished:
\* one teardown, one brick-stopped, the signals of the first call only.
C18_Witness ==
    /\ last.op = "poweroff" /\ last.ret = "done" /\ last.nested = "noop"
    /\ last.emitted = <<"brick-stopped">> /\ last.signals = stop_signals
    /\ proc = None /\ ~run_condition /\ pc = "idle"

\* ======================= home hosts of the factory's bricks =======================
\* A RemoteHost object is known by its place in factory.remote_hosts (the
\* list is only appended to); a brick's homehost is that place, 0 for None,
\* and its host is cfg.homehost.
MaxHosts == 4

HostAddrs == {<<"h", "1">>, <<"h", " ", "1">>, <<"h2">>}
HostedNames == <<<<"sw">>, <<"tap">>, <<"vm">>>>

\* Brick.__init__ up to the test of homehost.
unhosted(b) == b @@ [homehost |-> 0, host |-> <<>>]

\* A set_host that never looks for an existing host.
set_host_fresh(f, i, host) ==
    IF Len(host) > 0
    THEN [f EXCEPT !.bricks[i].host = host,
                   !.bricks[i].homehost = Len(f.remote_hosts) + 1,
                   !.remote_hosts = Append(@, NewHost(host))]
    ELSE [f EXCEPT !.bricks[i].host = host, !.bricks[i].homehost = 0]

\* Brick.set_host(host) on the i-th brick.
set_host_on(f, i, host) ==
    LET found == {k \in DOMAIN f.remote_hosts : f.remote_hosts[k].addr = host}
    IN IF Len(host) > 0
       THEN IF found # {}
            THEN [f EXCEPT !.bricks[i].host = host,
                           !.bricks[i].homehost =
                               CHOOSE k \in found : \A m \in found : k <= m]
            ELSE [f EXCEPT !.bricks[i].host = host,
                           !.bricks[i].homehost = Len(f.remote_hosts) + 1,
                           !.remote_hosts = Append(@, NewHost(host))]
       ELSE [f EXCEPT !.bricks[i].host = host, !.bricks[i].homehost = 0]

\* Brick.initialize(attrlist) for one attribute.
initialize(f, i, attr) ==
    IF split(attr, "=")[1] = <<"homehost">>
    THEN set_host_on(f, i, split(attr, "=")[2])
    ELSE f

HostStep(op) == [op |-> op, line |-> <<>>, raised |-> "none", logs |-> <<>>]

\* Brick(factory, name, homehost), then the factory keeps the brick.
new_hosted_brick ==
    /\ fpc = "hosts"
    /\ Len(factory.bricks) < MaxBricks
    /\ Len(factory.remote_hosts) < MaxHosts
    /\ \E host \in HostAddrs \cup {<<>>} :
          LET n == Len(factory.bricks) + 1
              g == newbrick(factory, <<"Switch">>, HostedNames[n])
              b == [g EXCEPT !.bricks[n] = unhosted(@)]
          IN factory' = IF Len(host) > 0 THEN set_host_on(b, n, host) ELSE b
    /\ flast' = HostStep("new")
    /\ UNCHANGED <<orig, fileobj, rpos, fpc, lifevars, savevars>>

\* brick.set_host(host)
brick_set_host ==
    /\ fpc = "hosts"
    /\ Len(factory.remote_hosts) < MaxHosts
    /\ \E i \in DOMAIN factory.bricks, host \in HostAddrs \cup {<<>>} :
          factory' = set_host_on(factory, i, host)
    /\ flast' = HostStep("set_host")
    /\ UNCHANGED <<orig, fileobj, rpos, fpc, lifevars, savevars>>

\* brick.configure([attr]) with a homehost key or another one.
brick_configure ==
    /\ fpc = "hosts"
    /\ Len(factory.remote_hosts) < MaxHosts
    /\ \E i \in DOMAIN factory.bricks,
          attr \in {kv("homehost", h) : h \in HostAddrs \cup {<<>>}}
                   \cup {kv("numports", <<"32">>)} :
          factory' = initialize(factory, i, attr)
    /\ flast' = HostStep("configure")
    /\ UNCHANGED <<orig, fileobj, rpos, fpc, lifevars, savevars>>

\* The bodies a [RemoteHost:...] section is read with: no line, a setting, a
\* blank line.
HostBodies == {<<>>, <<kv("autoconnect", <<"True">>)>>, <<<<>>>>}

\* restore_from meets a [RemoteHost:addr] section.
restore_remote_host ==
    /\ fpc = "hosts"
    /\ Len(factory.remote_hosts) < MaxHosts
    /\ \E addr \in HostAddrs, body \in HostBodies :
          LET lines == <<header("RemoteHost", addr)>> \o body
              r == section(factory, lines, 1, sub_spaces(lines[1]), TRUE)
          IN /\ factory' = r.f
             /\ flast' = [op |-> "section", line |-> lines[1],
                          raised |-> r.raised, logs |-> r.logs]
    /\ UNCHANGED <<orig, fileobj, rpos, fpc, lifevars, savevars>>

InitHosts ==
    /\ tcp = FALSE /\ cfgd = FALSE /\ plugs = <<>> /\ btype = "Switch"
    /\ sudo = FALSE /\ homehost = "none"
    /\ proc = None /\ pid = 0 /\ alive = FALSE /\ run_condition = FALSE
    /\ active = FALSE /\ internal_console = "none" /\ sockopen = FALSE
    /\ mgmt = FALSE /\ need_restart = FALSE /\ pc = "idle" /\ polled = FALSE
    /\ last = [op |-> "none", raised |-> "none", ret |-> "none", logs |-> {},
               emitted |-> <<>>, sent |-> <<>>, spawned |-> 0, signals |-> 0,
               evstarts |-> 0, slot |-> NoSlot, conn |-> "n/a",
               after |-> "other", host |-> "none", nested |-> "none",
               started |-> FALSE]
    /\ dest = Absent /\ bak = Absent /\ tmp = Absent /\ back = Absent
    /\ spc = "idle"
    /\ job = NoJob
    /\ factory = EmptyFactory
    /\ orig = EmptyFactory
    /\ fileobj = <<>>
    /\ rpos = 0
    /\ fpc = "hosts"
    /\ flast = NoStep

NextHosts ==
    \/ new_hosted_brick
    \/ brick_set_host
    \/ brick_configure
    \/ restore_remote_host

SpecHosts == InitHosts /\ [][NextHosts]_vars

\* C19: the factory holds at most one RemoteHost per address, and every brick
\* with a home host address refers to the RemoteHost of that address, so
\* bricks assigned the same address share one RemoteHost.
C19_HostsDeduplicated ==
    /\ \A i, j \in DOMAIN factory.remote_hosts :
           factory.remote_hosts[i].addr = factory.remote_hosts[j].addr => i = j
    /\ \A a \in DOMAIN factory.bricks :
           IF factory.bricks[a].host = <<>> THEN factory.bricks[a].homehost = 0
           ELSE /\ factory.bricks[a].homehost \in DOMAIN factory.remote_hosts
                /\ factory.remote_hosts[factory.bricks[a].homehost].addr
                       = factory.bricks[a].host
    /\ \A a, b \in DOMAIN factory.bricks :
           factory.bricks[a].host = factory.bricks[b].host =>
               factory.bricks[a].homehost = factory.bricks[b].homehost

\* Two bricks share one home host, a second host exists, and a RemoteHost
\* section for a known address has just been read.
C19_Witness ==
    /\ flast.op = "section" /\ flast.raised = "none"
    /\ Len(factory.remote_hosts) >= 2
    /\ Len(factory.bricks) >= 2
    /\ factory.bricks[1].homehost # 0
    /\ factory.bricks[1].homehost = factory.bricks[2].homehost

\* ---- restore_last_project ----
\* restore_last_project has called restore and the call is over.
LastProjectLoaded == job.op = "restore" /\ spc = "idle"

\* The project file was not there when restore was called.
MissingAtCall ==
    \/ ~job.had.exists /\ ~dest.exists
    \/ job.first = "ENOENT"

C21_ConsoleClosed ==
    [][(poweroff_finish /\ internal_console = "sock" /\ sockopen /\ mgmt) =>
           (internal_console' = "none" /\ ~sockopen')]_vars

\* C22: whenever no poweron or poweroff call is in progress, the process
\* handle is set exactly when the run flag is true.
C22_HandleIffRunFlag ==
    (pc = "idle") => ((proc # None) <=> run_condition)

\* C23: after a poweron that forwarded "<name> on" to the connected home
\* host, the next poweroff call (the home host unchanged) forwards
\* "<name> off" to it.
C23_RemoteStopMatchesStart ==
    [][(poweroff /\ pc = "idle" /\ last.op = "poweron"
                /\ last.sent = <<"name on">> /\ homehost = last.host) =>
           last'.sent = <<"name off\n">>]_vars

\* C24: without the TCP-control mode a poweron call raises the first failing
\* guard in the order unconfigured, not properly connected, link check
\* failed; under the TCP-control mode it raises no guard error and goes on
\* to _poweron, whatever the brick's configuration and plugs.
C24_GuardOrder ==
    [][poweron =>
           /\ (~tcp /\ ~cfgd) => last'.raised = "BadConfigError"
           /\ (~tcp /\ cfgd /\ ~properly_connected) =>
                  last'.raised = "NotConnectedError"
           /\ (~tcp /\ cfgd /\ properly_connected /\ ~check_links) =>
                  last'.raised = "LinkLoopError"
           /\ (~tcp /\ cfgd /\ properly_connected /\ check_links) =>
                  last'.raised \notin GuardErrors
           /\ tcp => last'.raised \notin GuardErrors]_vars

\* A brick failing all three guards has just been refused as unconfigured.
C24_Witness ==
    /\ last.op = "poweron" /\ last.raised = "BadConfigError"
    /\ ~tcp /\ ~cfgd /\ ~properly_connected /\ ~check_links
    /\ proc = None /\ last.spawned = 0

\* C27: brick-started and brick-stopped alternate, beginning with
\* brick-started: a poweron call emits brick-started only when none is
\* unmatched, and a poweroff emits brick-stopped only when one is.
C27_StartStopAlternate ==
    [][/\ (poweron /\ \E k \in DOMAIN last'.emitted :
                          last'.emitted[k] = "brick-started") => ~last.started
       /\ poweroff_finish => last.started]_vars

StepsLeft == <<cfgvars, savevars, filevars>>

\* A start that announces the brick as soon as the process exists.
start_popen_emits ==
    /\ pc = "idle"
    /\ guard_error = "none" /\ proc = None /\ homehost = "none"
    /\ proc' = Popen
    /\ alive' = TRUE
    /\ pc' = "278"
    /\ last' = Call("poweron", "running", "popen", {}, <<"brick-started">>, <<>>,
                    1, 0, NoSlot, "n/a")
    /\ UNCHANGED <<pid, run_condition, active, internal_console, need_restart,
                   sockopen, mgmt, polled, StepsLeft>>

\* self.proc = subprocess.Popen(...)
start_popen ==
    /\ pc = "idle"
    /\ guard_error = "none" /\ proc = None /\ homehost = "none"
    /\ proc' = Popen
    /\ alive' = TRUE
    /\ pc' = "278"
    /\ last' = Call("poweron", "running", "popen", {}, <<>>, <<>>, 1, 0,
                    NoSlot, "n/a")
    /\ UNCHANGED <<pid, run_condition, active, internal_console, need_restart,
                   sockopen, mgmt, polled, StepsLeft>>

\* self.pid = self.proc.pid
start_pid ==
    /\ pc = "278"
    /\ \E newpid \in Pids : pid' = newpid
    /\ pc' = "289"
    /\ last' = [last EXCEPT !.ret = "pid"]
    /\ UNCHANGED <<proc, run_condition, active, internal_console, need_restart,
                   alive, sockopen, mgmt, polled, StepsLeft>>

\* self.internal_console = self.open_internal_console()
start_console ==
    /\ pc = "289"
    /\ \E m \in BOOLEAN, con \in {"none", "sock"} :
          /\ (con = "sock") => (proc # None /\ m)
          /\ mgmt' = m
          /\ internal_console' = con
          /\ sockopen' = (con = "sock")
    /\ pc' = "293"
    /\ last' = [last EXCEPT !.ret = "console"]
    /\ UNCHANGED <<proc, pid, run_condition, active, need_restart, alive,
                   polled, StepsLeft>>

\* self.factory.emit("brick-started", self.name)
start_emit ==
    /\ pc = "293"
    /\ pc' = "295"
    /\ last' = [last EXCEPT !.ret = "emit",
                            !.emitted = Append(@, "brick-started"),
                            !.started = TRUE]
    /\ UNCHANGED <<brickvars, alive, sockopen, mgmt, polled, StepsLeft>>

\* self.run_condition = True
start_flag ==
    /\ pc = "295"
    /\ run_condition' = TRUE
    /\ pc' = "346"
    /\ last' = [last EXCEPT !.ret = "flag"]
    /\ UNCHANGED <<proc, pid, active, internal_console, need_restart, alive,
                   sockopen, mgmt, polled, StepsLeft>>

\* post_poweron: self.active = True
start_active ==
    /\ pc = "346"
    /\ active' = TRUE
    /\ pc' = "347"
    /\ last' = [last EXCEPT !.ret = "active"]
    /\ UNCHANGED <<proc, pid, run_condition, internal_console, need_restart,
                   alive, sockopen, mgmt, polled, StepsLeft>>

\* post_poweron: self.start_related_events(on=True); then poweron emits
\* "changed" and returns.
start_events ==
    /\ pc = "347"
    /\ \E pon_vbevent \in EventNames :
          last' = [last EXCEPT !.ret = "296", !.raised = "none",
                               !.slot = pon_vbevent,
                               !.evstarts = event_starts(pon_vbevent),
                               !.logs = @ \cup event_logs(pon_vbevent),
                               !.emitted = Append(@, "changed")]
    /\ pc' = "idle"
    /\ UNCHANGED <<brickvars, alive, sockopen, mgmt, polled, StepsLeft>>

\* A loop that is left without asking poll().
stop_proc_unpolled ==
    /\ pc = "polling"
    /\ proc' = None
    /\ pc' = "337"
    /\ last' = [last EXCEPT !.ret = "proc"]
    /\ UNCHANGED <<pid, run_condition, active, internal_console, need_restart,
                   alive, sockopen, mgmt, polled, StepsLeft>>

\* poll() reports an exit status, the loop ends; self.proc = None
stop_proc ==
    /\ pc = "polling"
    /\ ~alive
    /\ proc' = None
    /\ pc' = "337"
    /\ last' = [last EXCEPT !.ret = "proc"]
    /\ UNCHANGED <<pid, run_condition, active, internal_console, need_restart,
                   alive, sockopen, mgmt, polled, StepsLeft>>

\* self.need_restart_to_apply_changes = False
stop_restart ==
    /\ pc = "337"
    /\ need_restart' = FALSE
    /\ pc' = "338"
    /\ last' = [last EXCEPT !.ret = "restart"]
    /\ UNCHANGED <<proc, pid, run_condition, active, internal_console, alive,
                   sockopen, mgmt, polled, StepsLeft>>

\* self.close_internal_console(): closes only when has_console(closing=True)
stop_close ==
    /\ pc = "338"
    /\ sockopen' = IF has_console(proc) THEN FALSE ELSE sockopen
    /\ pc' = "341"
    /\ last' = [last EXCEPT !.ret = "close"]
    /\ UNCHANGED <<brickvars, alive, mgmt, polled, StepsLeft>>

\* self.internal_console = None
stop_console ==
    /\ pc = "341"
    /\ internal_console' = "none"
    /\ pc' = "342"
    /\ last' = [last EXCEPT !.ret = "console"]
    /\ UNCHANGED <<proc, pid, run_condition, active, need_restart, alive,
                   sockopen, mgmt, polled, StepsLeft>>

\* self.factory.emit("brick-stopped", self.name)
stop_emit ==
    /\ pc = "342"
    /\ pc' = "350"
    /\ last' = [last EXCEPT !.ret = "emit",
                            !.emitted = Append(@, "brick-stopped"),
                            !.started = FALSE]
    /\ UNCHANGED <<brickvars, alive, sockopen, mgmt, polled, StepsLeft>>

\* post_poweroff: self.active = False
stop_inactive ==
    /\ pc = "350"
    /\ active' = FALSE
    /\ pc' = "351"
    /\ last' = [last EXCEPT !.ret = "inactive"]
    /\ UNCHANGED <<proc, pid, run_condition, internal_console, need_restart,
                   alive, sockopen, mgmt, polled, StepsLeft>>

\* post_poweroff: self.start_related_events(off=True); poweroff returns.
stop_events ==
    /\ pc = "351"
    /\ \E poff_vbevent \in EventNames :
          last' = [last EXCEPT !.ret = "done", !.raised = "none",
                               !.slot = poff_vbevent,
                               !.evstarts = event_starts(poff_vbevent),
                               !.logs = @ \cup event_logs(poff_vbevent)]
    /\ pc' = "idle"
    /\ polled' = FALSE
    /\ UNCHANGED <<brickvars, alive, sockopen, mgmt, StepsLeft>>

TeardownSteps ==
    \/ stop_proc
    \/ stop_restart
    \/ stop_close
    \/ stop_console
    \/ stop_emit
    \/ stop_inactive
    \/ stop_events

InitSteps ==
    /\ tcp = FALSE /\ cfgd = TRUE /\ plugs = <<>>
    /\ btype \in {"Qemu", "Switch"}
    /\ sudo = FALSE /\ homehost = "none"
    /\ proc = None /\ pid = 0 /\ alive = FALSE /\ run_condition = FALSE
    /\ active = FALSE /\ internal_console = "none" /\ sockopen = FALSE
    /\ mgmt = FALSE /\ need_restart = FALSE /\ pc = "idle" /\ polled = FALSE
    /\ dest = Absent /\ bak = Absent /\ tmp = Absent /\ back = Absent
    /\ spc = "idle"
    /\ job = NoJob
    /\ NoProject
    /\ last = [op |-> "none", raised |-> "none", ret |-> "none", logs |-> {},
               emitted |-> <<>>, sent |-> <<>>, spawned |-> 0, signals |-> 0,
               evstarts |-> 0, slot |-> NoSlot, conn |-> "n/a",
               after |-> "other", host |-> "none", nested |-> "none",
               started |-> FALSE]

NextSteps ==
    \/ start_popen
    \/ start_pid
    \/ start_console
    \/ start_emit
    \/ start_flag
    \/ start_active
    \/ start_events
    \/ NeedRestart
    \/ ProcExit
    \/ poweroff_begin
    \/ poweroff_poll
    \/ TeardownSteps

SpecSteps == InitSteps /\ [][NextSteps]_vars

\* The poll loop and the teardown belong to the running call: they go on.
SpecStepsFair == SpecSteps /\ WF_vars(TeardownSteps)

\* The running (or last) call is a poweron that has emitted brick-started.
StartedEmitted ==
    last.op = "poweron" /\ \E k \in DOMAIN last.emitted : last.emitted[k] = "brick-started"

\* C25: in a successful local start the process handle is recorded first,
\* then the PID, then the console is tried, then brick-started is emitted
\* (with the handle set, the brick not yet active and the on_start_event
\* slot not yet read), then the brick is marked active, then the slot is
\* read.
C25_StartOrder ==
    [][/\ (proc = None /\ proc' # None) =>
              /\ UNCHANGED <<pid, internal_console, sockopen, mgmt, active>>
              /\ ~StartedEmitted' /\ last'.slot = NoSlot
       /\ (last'.ret = "pid" /\ last.ret # "pid") =>
              /\ proc # None /\ last.ret = "popen" /\ pid' \in Pids
              /\ UNCHANGED <<internal_console, sockopen, mgmt, active>>
              /\ ~StartedEmitted'
       /\ (last.op = "poweron" /\ last'.ret = "console" /\ last.ret # "console") =>
              /\ proc # None /\ last.ret = "pid"
              /\ ~StartedEmitted' /\ ~active'
       /\ (~StartedEmitted /\ StartedEmitted') =>
              /\ proc # None /\ proc' # None /\ pid \in Pids
              /\ last.ret = "console"
              /\ ~active /\ ~active'
              /\ last'.slot = NoSlot /\ last'.evstarts = 0
       /\ (~active /\ active') =>
              /\ StartedEmitted
              /\ last.slot = NoSlot /\ last'.slot = NoSlot
       /\ (last.op = "poweron" /\ last.slot = NoSlot /\ last'.slot # NoSlot) =>
              /\ active /\ StartedEmitted /\ proc # None]_vars

\* brick-started has just been emitted: a handler sees the handle and the
\* PID, an open console, the brick not yet active, the slot not yet read.
C25_Witness ==
    /\ StartedEmitted /\ last.ret = "emit" /\ last.raised = "running"
    /\ proc # None /\ pid \in Pids /\ internal_console = "sock"
    /\ ~active /\ last.slot = NoSlot

\* The running (or last) call is a poweroff that has emitted brick-stopped.
StoppedEmitted ==
    last.op = "poweroff" /\ \E k \in DOMAIN last.emitted : last.emitted[k] = "brick-stopped"

\* C26: in a completed local stop the process handle is cleared first, then
\* the needs-restart flag, then the console is closed, then brick-stopped
\* is emitted (with the handle none, the console closed and its reference
\* cleared, the slot not yet read), then the brick is marked inactive, then
\* the on_stop_event slot is read.
C26_StopOrder ==
    [][/\ (proc # None /\ proc' = None) =>
              /\ UNCHANGED <<need_restart, internal_console, sockopen, active>>
              /\ ~StoppedEmitted' /\ last'.slot = NoSlot
       /\ (last'.ret = "restart" /\ last.ret # "restart") =>
              /\ proc = None /\ last.ret = "proc" /\ ~need_restart'
              /\ ~StoppedEmitted'
       /\ (~StoppedEmitted /\ StoppedEmitted') =>
              /\ proc = None /\ ~need_restart
              /\ internal_console = "none" /\ ~sockopen
              /\ active' = active
              /\ last'.slot = NoSlot /\ last'.evstarts = 0
       /\ (active /\ ~active') =>
              /\ StoppedEmitted
              /\ last.slot = NoSlot /\ last'.slot = NoSlot
       /\ (last.op = "poweroff" /\ last.slot = NoSlot /\ last'.slot # NoSlot) =>
              /\ ~active /\ StoppedEmitted /\ proc = None]_vars

\* C28: the poll loop is left for the cleanup only when the process no
\* longer reports running, and while it does the loop goes on polling; once
\* the process reports terminated, poweroff goes on to complete with the
\* process handle cleared and brick-stopped emitted.
C28_PollUntilExit ==
    /\ [][(pc = "polling" /\ pc' # "polling") => (~alive /\ proc' = None)]_vars
    /\ [][(pc = "polling" /\ alive) => (proc' = proc /\ ~StoppedEmitted')]_vars
    /\ (pc = "polling" /\ ~alive) ~> (pc = "idle" /\ proc = None /\ StoppedEmitted)

\* The loop saw the process running at least once, then its exit; the
\* cleanup has cleared the handle and emitted brick-stopped.
C28_Witness ==
    /\ polled /\ ~alive /\ proc = None /\ StoppedEmitted
    /\ last.signals > 0 /\ pc = "350"

\* ======================= Brick.build_cmd_line, Brick.args =======================
\* command_builder is taken in the order items() yields it: a sequence of
\* entries [switch, call, v, key], where v is what the callable returns
\* (call) and key is the key looked up in cfg (~call). A value is a string
\* or None.
MaxEntries == 2

Str(s) == [set |-> TRUE, str |-> s]
NoValue == [set |-> FALSE, str |-> <<>>]
Values == {NoValue, Str(<<>>), Str(<<"*">>), Str(<<"v">>), Str(<<"*", "v">>),
           Str(<<"q", "\"">>)}
Switches == {<<"-", "a">>, <<"#", "-", "b">>, <<"*", "c">>, <<"-", "d">>}
CfgKeys == {"k"}
Entry == [switch : Switches, call : {TRUE}, v : Values, key : {"none"}]
         \cup [switch : Switches, call : {FALSE}, v : {NoValue},
               key : CfgKeys \cup {"missing"}]
\* A dict holds a switch once.
Builders ==
    {b \in UNION {[1..n -> Entry] : n \in 0..MaxEntries} :
        \A i, j \in DOMAIN b : b[i].switch = b[j].switch => i = j}

\* self.prog()
prog == <<"p">>

\* v() for a callable, self.cfg.get(v) for a key
resolve(e, cfg) ==
    IF e.call THEN e.v
    ELSE IF e.key \in DOMAIN cfg THEN cfg[e.key] ELSE NoValue

\* A loop body that puts the switch before a positional value too.
entry_args_switch_always(e, cfg) ==
    LET value == resolve(e, cfg)
    IN IF startswith(e.switch, "#") THEN <<>>
       ELSE IF value = Str(<<"*">>) THEN <<e.switch>>
       ELSE IF value.set /\ Len(value.str) > 0 THEN <<e.switch, value.str>>
       ELSE <<>>

\* One turn of build_cmd_line's loop: what it appends to res.
entry_args(e, cfg) ==
    LET value == resolve(e, cfg)
    IN IF startswith(e.switch, "#") THEN <<>>
       ELSE IF value = Str(<<"*">>) THEN <<e.switch>>
       ELSE IF value.set /\ Len(value.str) > 0
       THEN (IF ~startswith(e.switch, "*") THEN <<e.switch>> ELSE <<>>)
            \o <<value.str>>
       ELSE <<>>

RECURSIVE build_cmd_line(_, _)
build_cmd_line(b, cfg) ==
    IF b = <<>> THEN <<>>
    ELSE entry_args(Head(b), cfg) \o build_cmd_line(Tail(b), cfg)

args(b, cfg) == <<prog>> \o build_cmd_line(b, cfg)

\* brick.args() is called.
build_args ==
    /\ fpc = "args"
    /\ fileobj' = args(orig.command_builder, orig.cfg)
    /\ fpc' = "built"
    /\ flast' = [op |-> "args", line |-> <<>>, raised |-> "none", logs |-> <<>>]
    /\ UNCHANGED <<factory, orig, rpos, lifevars, savevars>>

InitArgs ==
    /\ tcp = FALSE /\ cfgd = FALSE /\ plugs = <<>>
    /\ btype \in {"Qemu", "Switch"}
    /\ sudo \in BOOLEAN /\ homehost = "none"
    /\ proc = None /\ pid = 0 /\ alive = FALSE /\ run_condition = FALSE
    /\ active = FALSE /\ internal_console = "none" /\ sockopen = FALSE
    /\ mgmt = FALSE /\ need_restart = FALSE /\ pc = "idle" /\ polled = FALSE
    /\ last = [op |-> "none", raised |-> "none", ret |-> "none", logs |-> {},
               emitted |-> <<>>, sent |-> <<>>, spawned |-> 0, signals |-> 0,
               evstarts |-> 0, slot |-> NoSlot, conn |-> "n/a",
               after |-> "other", host |-> "none", nested |-> "none",
               started |-> FALSE]
    /\ dest = Absent /\ bak = Absent /\ tmp = Absent /\ back = Absent
    /\ spc = "idle"
    /\ job = NoJob
    /\ factory = EmptyFactory
    /\ \E b \in Builders, cfg \in [CfgKeys -> Values] :
          orig = [command_builder |-> b, cfg |-> cfg]
    /\ fileobj = <<>>
    /\ rpos = 0
    /\ fpc = "args"
    /\ flast = NoStep

\* self.settings.get("sudo") and self.pidfile
sudo_launcher == <<"sudo">>
pidfile == <<"pidfile">>

\* re.sub('"', '\\"', arg)
RECURSIVE escape(_)
escape(arg) ==
    IF arg = <<>> THEN <<>>
    ELSE (IF Head(arg) = "\"" THEN <<"\\", "\"">> ELSE <<Head(arg)>>)
         \o escape(Tail(arg))

\* for cmdarg in command_line: sudoarg += cmdarg + " "
RECURSIVE sudoarg_of(_)
sudoarg_of(cl) ==
    IF cl = <<>> THEN <<>> ELSE Head(cl) \o <<" ">> \o sudoarg_of(Tail(cl))

\* [self.escape(cmdarg) for cmdarg in self.args()]
escape_all(cl) == [i \in DOMAIN cl |-> escape(cl[i])]

\* The else branch with the launcher and the string put in a fresh list.
sudo_line_fresh(cl) ==
    [raised |-> "none",
     cmd |-> <<sudo_launcher,
               escape(sudoarg_of(cl) \o <<"-P", " ">> \o pidfile)>>]

\* The else branch of the needsudo block: the launcher and the string are
\* assigned to items 0 and 1 of the list args() returned.
sudo_line(cl) ==
    IF Len(cl) < 2 THEN [raised |-> "IndexError", cmd |-> <<>>]
    ELSE [raised |-> "none",
          cmd |-> <<sudo_launcher,
                    escape(sudoarg_of(cl) \o <<"-P", " ">> \o pidfile)>>
                  \o SubSeq(cl, 3, Len(cl))]

\* The command vector _poweron arrives at before it looks at the home host.
command_line(cl) ==
    IF ~needsudo THEN [raised |-> "none", cmd |-> cl]
    ELSE IF btype = "Qemu"
    THEN [raised |-> "none",
          cmd |-> <<sudo_launcher>> \o escape_all(cl) \o <<<<"-pidfile">>, pidfile>>]
    ELSE sudo_line(cl)

\* _poweron builds the command vector from what args() returned.
build_command_line ==
    /\ fpc = "built"
    /\ LET r == command_line(fileobj)
       IN /\ fileobj' = r.cmd
          /\ flast' = [op |-> "_poweron", line |-> <<>>, raised |-> r.raised,
                       logs |-> <<>>]
    /\ fpc' = "command"
    /\ UNCHANGED <<factory, orig, rpos, lifevars, savevars>>

NextArgs == build_args \/ build_command_line

SpecArgs == InitArgs /\ [][NextArgs]_vars

\* What the entry at i contributes: nothing when its switch is disabled by
\* '#'; its switch alone for the wildcard value; for a non-empty value the
\* switch and the value, or the value alone under a positional switch;
\* nothing for an absent or empty value.
Contribution(i) ==
    LET e == orig.command_builder[i]
        value == resolve(e, orig.cfg)
    IN CASE e.switch[1] = "#" -> <<>>
         [] e.switch[1] # "#" /\ value = Str(<<"*">>) -> <<e.switch>>
         [] e.switch[1] # "#" /\ value # Str(<<"*">>) /\ value.set
               /\ value.str # <<>> /\ e.switch[1] = "*" -> <<value.str>>
         [] e.switch[1] # "#" /\ value # Str(<<"*">>) /\ value.set
               /\ value.str # <<>> /\ e.switch[1] # "*" -> <<e.switch, value.str>>
         [] OTHER -> <<>>

\* Where the contribution of entry i begins in the vector, less one.
RECURSIVE Before(_)
Before(i) == IF i = 1 THEN 1 ELSE Before(i - 1) + Len(Contribution(i - 1))

\* C30: the argument vector begins with the program path, and then holds,
\* entry after entry in the mapping's order, what each entry contributes,
\* and nothing else.
C30_ArgumentVector ==
    (fpc = "built") =>
        /\ fileobj[1] = prog
        /\ \A i \in DOMAIN orig.command_builder :
               SubSeq(fileobj, Before(i) + 1, Before(i) + Len(Contribution(i)))
                   = Contribution(i)
        /\ Len(fileobj) = Before(Len(orig.command_builder) + 1)

\* A vector built from a positional switch with a value from cfg and a
\* wildcard switch: the value alone, then the switch alone.
C30_Witness ==
    /\ fpc = "built"
    /\ Len(orig.command_builder) = 2
    /\ orig.command_builder[1].switch = <<"*", "c">>
    /\ ~orig.command_builder[1].call
    /\ orig.command_builder[2].switch = <<"-", "a">>
    /\ fileobj = <<prog, <<"v">>, <<"-", "a">>>>

\* The escaped arguments joined by single spaces.
RECURSIVE JoinEscaped(_)
JoinEscaped(cl) ==
    IF Len(cl) = 1 THEN escape(cl[1])
    ELSE escape(Head(cl)) \o <<" ">> \o JoinEscaped(Tail(cl))

\* C31: for a brick that is not a Qemu and needs sudo without TCP control,
\* the command vector has exactly two elements, the launcher and one string
\* made of the escaped arguments joined by spaces and followed by
\* '-P <pidfile>', whatever the number of arguments.
C31_SudoVector ==
    (fpc = "command" /\ needsudo /\ btype # "Qemu") =>
        /\ flast.raised = "none"
        /\ fileobj = <<sudo_launcher,
                       JoinEscaped(args(orig.command_builder, orig.cfg))
                           \o <<" ", "-P", " ">> \o pidfile>>

\* The plugs of vm bricks that have a sock and another mode than vde.
UserPlugs ==
    {x \in {<<i, k>> : i \in DOMAIN orig.bricks, k \in 1..1} :
        /\ orig.bricks[x[1]].type = "Qemu"
        /\ x[2] \in DOMAIN orig.bricks[x[1]].plugs
        /\ orig.bricks[x[1]].plugs[x[2]].sock # NoSock
        /\ orig.bricks[x[1]].plugs[x[2]].mode # "vde"}

userlink(b, p) ==
    <<"userlink", "|">> \o b.name \o <<"|", "|">> \o p.model \o <<"|">> \o p.mac

\* C32: for every plug of a Qemu brick with a bound sock and a mode other
\* than vde, save writes exactly one line userlink|<brick>||<model>|<mac>,
\* and the save completes.
C32_UserlinkWritten ==
    (flast.op = "save" /\ UserPlugs # {}) =>
        /\ flast.raised = "none"
        /\ \A x \in UserPlugs :
              \E n \in DOMAIN fileobj :
                 /\ fileobj[n] = userlink(orig.bricks[x[1]], orig.bricks[x[1]].plugs[x[2]])
                 /\ \A m \in DOMAIN fileobj : fileobj[m] = fileobj[n] => m = n

\* The line just read is a sock, link or userlink record of at least three
\* fields whose second field names a brick the load has declared.
TrailerRecordRead ==
    /\ flast.op = "line"
    /\ LET fs == split(flast.line, "|")
       IN /\ Len(fs) >= 3
          /\ fs[1] \in {<<"sock">>, <<"link">>, <<"userlink">>}
          /\ named(factory, fs[2]) # {}

\* C33: during load a sock, link or userlink line with at least three
\* fields that names a declared brick is processed without raising, for
\* every brick type and also for a vm with three or four fields only; it
\* never aborts the load.
C33_TrailerNeverAborts ==
    TrailerRecordRead => (flast.raised = "none" /\ fpc = "reading")

\* The fields of the line the load is about to read.
NextFields == split(sub_spaces(fileobj[rpos]), "|")

RECURSIVE PlugCount(_, _)
PlugCount(f, n) ==
    IF n = 0 THEN 0
    ELSE Len(f.bricks[n].plugs) + Len(f.bricks[n].config_socks) + PlugCount(f, n - 1)

\* C34: a trailer line yields one kind of record. A line whose first field
\* is sock adds no plug and no pending link (and one sock when it names a
\* declared vm with its five fields); a line whose first field is link or
\* userlink adds no sock, whatever the names in its other fields.
C34_OneKindPerLine ==
    [][(restore_line /\ fpc' = "reading" /\ Len(NextFields) >= 3) =>
          /\ (NextFields[1] = <<"sock">>) =>
                /\ PlugCount(factory', Len(factory'.bricks))
                      = PlugCount(factory, Len(factory.bricks))
                /\ (\E i \in named(factory, NextFields[2]) :
                        factory.bricks[i].type = "Qemu" /\ Len(NextFields) >= 5)
                   => Len(factory'.socks) = Len(factory.socks) + 1
          /\ (NextFields[1] \in {<<"link">>, <<"userlink">>}) =>
                Len(factory'.socks) = Len(factory.socks)]_vars

\* The plugs of brick b after its pending names, from the k-th on, were
\* looked up by name among the socks of f, each once and in order: a name
\* that is found goes to the first plug without a sock.
RECURSIVE Resolved(_, _, _)
Resolved(f, b, k) ==
    IF k > Len(b.config_socks) THEN b.plugs
    ELSE LET nick == b.config_socks[k]
             found == nick = hostonly_sock
                      \/ \E s \in DOMAIN f.socks : f.socks[s].nickname = nick
             free == {n \in DOMAIN b.plugs : b.plugs[n].sock = NoSock}
             first == CHOOSE n \in free : \A m \in free : n <= m
         IN IF found /\ free # {}
            THEN Resolved(f, [b EXCEPT !.plugs[first].sock = nick], k + 1)
            ELSE Resolved(f, b, k + 1)

\* The line the load is about to read is a link record of a declared brick
\* of another type than Qemu.
PendingLinkNext(i) ==
    /\ Len(NextFields) >= 3
    /\ NextFields[1] = <<"link">>
    /\ i \in named(factory, NextFields[2])
    /\ factory.bricks[i].type # "Qemu"

\* C35: for a link record of a brick that is not a Qemu no connection is
\* attempted while the lines are read: the sock name is appended to the
\* brick's pending queue; after the last line each pending name is resolved
\* once, in the recorded order, by the lookup by name.
C35_LinksDeferred ==
    [][/\ restore_line =>
            \A i \in DOMAIN factory.bricks :
               factory.bricks[i].type # "Qemu" =>
                  /\ factory'.bricks[i].plugs = factory.bricks[i].plugs
                  /\ factory'.bricks[i].config_socks =
                        IF PendingLinkNext(i)
                        THEN Append(factory.bricks[i].config_socks, NextFields[3])
                        ELSE factory.bricks[i].config_socks
       /\ restore_end =>
            /\ Len(factory'.bricks) = Len(factory.bricks)
            /\ \A i \in DOMAIN factory.bricks :
                  factory.bricks[i].type # "Qemu" =>
                     factory'.bricks[i].plugs = Resolved(factory, factory.bricks[i], 1)]_vars

\* The load is over, and a tap is bound to the sock of a brick whose section
\* comes after the link record in the file.
C35_Witness ==
    /\ fpc = "done"
    /\ \E i, j \in DOMAIN factory.bricks, k, p \in DOMAIN fileobj :
          /\ factory.bricks[i].type = "Tap"
          /\ k < p
          /\ fileobj[p] = header(factory.bricks[j].type, factory.bricks[j].name)
          /\ factory.bricks[j].socks # <<>>
          /\ fileobj[k] = link3(factory.bricks[i].name, factory.bricks[j].socks[1].nickname)
          /\ factory.bricks[i].config_socks = <<factory.bricks[j].socks[1].nickname>>
          /\ factory.bricks[i].plugs[1].sock = factory.bricks[j].socks[1].nickname

\* ======================= projects with hosts and disk images =======================
\* A remote host as the session holds it: every setting at the value a new
\* host has, or every setting given.
HostOf(addr, given, auto) ==
    IF given
    THEN [NewHost(addr) EXCEPT !.port = <<"2000">>, !.password = <<"pw">>,
                               !.baseimages = <<"/", "img">>,
                               !.qemupath = <<"/", "qemu">>,
                               !.vdepath = <<"/", "vde">>,
                               !.bricksdirectory = <<"/", "bricks">>,
                               !.autoconnect = auto]
    ELSE [NewHost(addr) EXCEPT !.autoconnect = auto]

SessionHosts == {HostOf(<<"h", "1">>, given, auto) : given, auto \in BOOLEAN}
SessionImages == {[name |-> <<"d">>, path |-> <<"d">>]}

SectionProjects ==
    {[with_bricks(ks, Len(ks)) EXCEPT !.remote_hosts = hs, !.disk_images = ds,
                                      !.events = es] :
        ks \in {<<>>, <<[name |-> <<"sw">>, type |-> "Switch"]>>},
        hs \in {<<>>} \cup {<<h>> : h \in SessionHosts},
        ds \in {<<>>} \cup {<<d>> : d \in SessionImages},
        es \in {<<>>, << <<"ev">> >>}}

\* The header of the section the line at p belongs to (0: none).
section_of(lines, p) ==
    LET hs == {q \in 1..p : startswith(lines[q], "[")}
    IN IF hs = {} THEN 0 ELSE CHOOSE q \in hs : \A r \in hs : r <= q

is_inline(l) ==
    startswith(l, "[") /\ Len(l) > 1 /\ l[2] \in {"DiskImage", "RemoteHost"}

\* A blank line put in by hand after the header of a DiskImage or
\* RemoteHost section, or after the blank line that ends its body.
edit_blank ==
    /\ fpc = "saved"
    /\ flast.op = "save"
    /\ \E p \in DOMAIN fileobj :
          /\ section_of(fileobj, p) # 0
          /\ is_inline(fileobj[section_of(fileobj, p)])
          /\ section_of(fileobj, p) = p \/ fileobj[p] = <<>>
          /\ fileobj' = SubSeq(fileobj, 1, p) \o << <<>> >>
                        \o SubSeq(fileobj, p + 1, Len(fileobj))
    /\ flast' = [op |-> "edit", line |-> <<>>, raised |-> "none", logs |-> <<>>]
    /\ UNCHANGED <<factory, orig, rpos, fpc, lifevars, savevars>>

\* A DiskImage section of the file copied by hand to its top: the name is
\* declared twice.
edit_repeat_image ==
    /\ fpc = "saved"
    /\ flast.op = "save"
    /\ \E i \in DOMAIN orig.disk_images :
          fileobj' = disk_image_lines(orig.disk_images[i]) \o fileobj
    /\ flast' = [op |-> "edit", line |-> <<>>, raised |-> "none", logs |-> <<>>]
    /\ UNCHANGED <<factory, orig, rpos, fpc, lifevars, savevars>>

InitSections ==
    /\ tcp = FALSE /\ cfgd = FALSE /\ plugs = <<>> /\ btype = "Switch"
    /\ sudo = FALSE /\ homehost = "none"
    /\ proc = None /\ pid = 0 /\ alive = FALSE /\ run_condition = FALSE
    /\ active = FALSE /\ internal_console = "none" /\ sockopen = FALSE
    /\ mgmt = FALSE /\ need_restart = FALSE /\ pc = "idle" /\ polled = FALSE
    /\ last = [op |-> "none", raised |-> "none", ret |-> "none", logs |-> {},
               emitted |-> <<>>, sent |-> <<>>, spawned |-> 0, signals |-> 0,
               evstarts |-> 0, slot |-> NoSlot, conn |-> "n/a",
               after |-> "other", host |-> "none", nested |-> "none",
               started |-> FALSE]
    /\ dest = Absent /\ bak = Absent /\ tmp = Absent /\ back = Absent
    /\ spc = "idle"
    /\ job = NoJob
    /\ factory \in SectionProjects
    /\ orig = factory
    /\ fileobj = <<>>
    /\ rpos = 0
    /\ fpc = "built"
    /\ flast = NoStep

NextSections ==
    \/ save_to
    \/ edit_blank
    \/ edit_repeat_image
    \/ restore_begin
    \/ restore_line
    \/ restore_end

SpecSections == InitSections /\ [][NextSections]_vars

HeaderName(l) == SubSeq(l, 4, Len(l) - 1)

\* The section whose header is the line l of the file is in the model.
Loaded(l) ==
    IF l[2] = "Event" THEN \E e \in DOMAIN factory.events : factory.events[e] = HeaderName(l)
    ELSE named(factory, HeaderName(l)) # {}

\* C36: after a DiskImage or RemoteHost section was consumed by its inline
\* loop, registered or skipped, with or without blank lines after its header
\* or its body, parsing resumes at the next header and every later section
\* of the file is loaded.
C36_LaterSectionsLoaded ==
    (fpc = "done") =>
        \A p, q \in DOMAIN fileobj :
           (p < q /\ is_inline(fileobj[p]) /\ startswith(fileobj[q], "[")
                  /\ ~is_inline(fileobj[q]))
           => Loaded(fileobj[q])

\* The file is as save wrote it, it holds the section of a host with
\* autoconnect set, and the load is over.
AutoconnectLoaded ==
    /\ fpc = "done"
    /\ fileobj = save_lines(orig).lines
    /\ orig.remote_hosts # <<>>
    /\ orig.remote_hosts[1].autoconnect

\* C37: loading a RemoteHost section with autoconnect=True in the layout save
\* writes sets the host's autoconnect flag and invokes connect on the host.
C37_AutoconnectConnects ==
    AutoconnectLoaded =>
        /\ Len(factory.remote_hosts) = 1
        /\ factory.remote_hosts[1].autoconnect
        /\ factory.remote_hosts[1].connected

\* C38: for a RemoteHost whose values hold no whitespace, restore(save(model))
\* gives a RemoteHost with the same address, port, password, baseimages,
\* qemupath, vdepath, bricksdirectory and autoconnect.
C38_HostRoundTrip ==
    (fpc = "done" /\ fileobj = save_lines(orig).lines) =>
        \A i \in DOMAIN orig.remote_hosts :
           \E j \in DOMAIN factory.remote_hosts :
              LET a == orig.remote_hosts[i]
                  b == factory.remote_hosts[j]
              IN /\ b.addr = a.addr /\ b.port = a.port
                 /\ b.password = a.password /\ b.baseimages = a.baseimages
                 /\ b.qemupath = a.qemupath /\ b.vdepath = a.vdepath
                 /\ b.bricksdirectory = a.bricksdirectory
                 /\ b.autoconnect = a.autoconnect

\* save has just failed after the backup block was entered: in open(tmpfile),
\* in save_to or in os.rename.
SaveFailed ==
    /\ job.op = "save" /\ spc = "idle" /\ ~job.crashed
    /\ job.raised # "none"
    /\ job.old # Absent => (job.ops # <<>> /\ job.ops[1] = "copy")

\* C39: when save fails while it serializes the model, writes the temp file
\* or renames it, the destination file is what it was before the call, and
\* the ~ backup made for an existing destination is still there.
C39_FailedSaveKeepsFiles ==
    SaveFailed =>
        /\ dest = job.old
        /\ job.old # Absent => bak = job.old

\* The rename of a wholly written temp file failed over an existing project.
C39_Witness ==
    /\ SaveFailed
    /\ job.raised = "OSError"
    /\ job.ops = <<"copy", "write">>
    /\ job.old # Absent /\ job.old.whole
    /\ dest = job.old /\ bak = job.old
    /\ tmp = File(job.new, TRUE)

\* ======================= Brick.has_console, Brick.open_internal_console =======================
\* One call of open_internal_console, statement by statement. pc is the line
\* the call stands at, rpos the loop variable i, mgmt whether the path
\* self.console() exists, and flast what the call has done so far:
\*   checks    tests of the management socket's path
\*   connects  calls of c.connect
\*   sleeps    calls of time.sleep(0.5)
\*   observed  has_console returned True
\*   ret       "none" while it runs, then "None" or "sock"
\* range(1, 10)
Retries == 9

ConsoleLeft == <<cfgvars, pid, run_condition, active, internal_console,
                 need_restart, alive, polled, last, savevars, factory, orig,
                 fileobj, fpc>>

NoConsoleCall ==
    [op |-> "none", raised |-> "none", logs |-> <<>>, ret |-> "none",
     checks |-> 0, connects |-> 0, sleeps |-> 0, observed |-> FALSE]

\* open_internal_console is called: has_console() starts its loop.
console_call ==
    /\ pc = "idle"
    /\ flast.op = "none"
    /\ flast' = [NoConsoleCall EXCEPT !.op = "open_internal_console",
                                      !.logs = <<"debug">>]
    /\ rpos' = 1
    /\ pc' = "379"
    /\ UNCHANGED <<ConsoleLeft, proc, mgmt, sockopen>>

\* A test of has_console that never looks at the process handle.
console_check_any_handle ==
    /\ pc = "379"
    /\ flast' = [flast EXCEPT !.checks = @ + 1, !.observed = mgmt]
    /\ pc' = IF mgmt THEN "418" ELSE "385"
    /\ rpos' = IF mgmt THEN 1 ELSE rpos
    /\ UNCHANGED <<ConsoleLeft, proc, mgmt, sockopen>>

\* if self.proc is not None and self.console() and os.path.exists(...):
\* return True, and open_internal_console goes on to its own loop.
console_check ==
    /\ pc = "379"
    /\ flast' = [flast EXCEPT !.checks = @ + 1,
                              !.observed = proc # None /\ mgmt]
    /\ pc' = IF proc # None /\ mgmt THEN "418" ELSE "385"
    /\ rpos' = IF proc # None /\ mgmt THEN 1 ELSE rpos
    /\ UNCHANGED <<ConsoleLeft, proc, mgmt, sockopen>>

\* time.sleep(0.5) of has_console, then the next i; after the last one
\* has_console returns False and open_internal_console returns None.
console_wait ==
    /\ pc = "385"
    /\ IF rpos < Retries
       THEN /\ flast' = [flast EXCEPT !.sleeps = @ + 1]
            /\ rpos' = rpos + 1
            /\ pc' = "379"
       ELSE /\ flast' = [flast EXCEPT !.sleeps = @ + 1, !.ret = "None",
                                      !.logs = Append(@, "debug")]
            /\ rpos' = 0
            /\ pc' = "idle"
    /\ UNCHANGED <<ConsoleLeft, proc, mgmt, sockopen>>

\* time.sleep(0.5) at the top of the try block.
connect_wait ==
    /\ pc = "418"
    /\ flast' = [flast EXCEPT !.sleeps = @ + 1]
    /\ pc' = "420"
    /\ UNCHANGED <<ConsoleLeft, proc, mgmt, sockopen, rpos>>

\* c.connect(self.console()): it connects and c is returned, or it raises,
\* the bare except passes and the loop goes on; after the last i the error
\* is logged and None returned.
connect_try ==
    /\ pc = "420"
    /\ \E ok \in BOOLEAN :
          /\ ok => mgmt
          /\ IF ok
             THEN /\ flast' = [flast EXCEPT !.connects = @ + 1, !.ret = "sock"]
                  /\ sockopen' = TRUE
                  /\ rpos' = 0
                  /\ pc' = "idle"
             ELSE IF rpos < Retries
             THEN /\ flast' = [flast EXCEPT !.connects = @ + 1]
                  /\ rpos' = rpos + 1
                  /\ pc' = "418"
                  /\ UNCHANGED sockopen
             ELSE /\ flast' = [flast EXCEPT !.connects = @ + 1, !.ret = "None",
                                            !.logs = Append(@, "error")]
                  /\ rpos' = 0
                  /\ pc' = "idle"
                  /\ UNCHANGED sockopen
    /\ UNCHANGED <<ConsoleLeft, proc, mgmt>>

ConsoleSteps ==
    console_check \/ console_wait \/ connect_wait \/ connect_try

\* The brick's process makes its management socket, or the path goes away.
MgmtAppears ==
    /\ ~mgmt
    /\ mgmt' = TRUE
    /\ UNCHANGED <<ConsoleLeft, proc, sockopen, pc, rpos, flast>>

MgmtVanishes ==
    /\ mgmt
    /\ ~sockopen
    /\ mgmt' = FALSE
    /\ UNCHANGED <<ConsoleLeft, proc, sockopen, pc, rpos, flast>>

InitConsole ==
    /\ tcp = FALSE /\ cfgd = TRUE /\ plugs = <<>> /\ btype \in {"Qemu", "Switch"}
    /\ sudo = FALSE /\ homehost = "none"
    /\ proc \in {None, Popen}
    /\ pid = IF proc = None THEN 0 ELSE 2
    /\ alive = (proc # None)
    /\ run_condition = FALSE
    /\ active = FALSE /\ internal_console = "none" /\ sockopen = FALSE
    /\ mgmt = FALSE /\ need_restart = FALSE /\ pc = "idle" /\ polled = FALSE
    /\ last = [op |-> "none", raised |-> "none", ret |-> "none", logs |-> {},
               emitted |-> <<>>, sent |-> <<>>, spawned |-> 0, signals |-> 0,
               evstarts |-> 0, slot |-> NoSlot, conn |-> "n/a",
               after |-> "other", host |-> "none", nested |-> "none",
               started |-> FALSE]
    /\ dest = Absent /\ bak = Absent /\ tmp = Absent /\ back = Absent
    /\ spc = "idle"
    /\ job = NoJob
    /\ factory = EmptyFactory /\ orig = EmptyFactory
    /\ fileobj = <<>>
    /\ rpos = 0
    /\ fpc = "console"
    /\ flast = NoConsoleCall

NextConsole ==
    \/ console_call
    \/ console_check
    \/ console_wait
    \/ connect_wait
    \/ connect_try
    \/ MgmtAppears
    \/ MgmtVanishes

SpecConsole == InitConsole /\ [][NextConsole]_vars

\* The call runs on: the thread that called open_internal_console is
\* scheduled, and time.sleep returns.
SpecConsoleFair == SpecConsole /\ WF_vars(ConsoleSteps)

\* C40: opening the internal console always returns, without raising, a
\* connected channel or None, after at most 9 checks for the management
\* socket and at most 9 connect attempts, a delay before each further one;
\* no connect is attempted when the socket path was never observed or the
\* brick has no process handle.
C40_ConsoleOpens ==
    /\ [](/\ flast.raised = "none"
          /\ flast.checks <= 9 /\ flast.connects <= 9
          /\ flast.ret \in {"none", "None", "sock"}
          /\ (flast.ret = "sock") => sockopen
          /\ (flast.connects > 0) => (flast.observed /\ proc # None)
          /\ flast.sleeps >= flast.checks + flast.connects - 1)
    /\ [][flast'.connects > flast.connects => (flast.observed /\ proc # None)]_vars
    /\ (flast.op = "open_internal_console") ~> (pc = "idle" /\ flast.ret # "none")

\* The socket showed up at the last check, and the last connect went through.
C40_Witness ==
    /\ pc = "idle" /\ flast.ret = "sock"
    /\ flast.checks = 9 /\ flast.connects = 9

====
